---- MODULE Spec2Model ----
(***************************************************************************)
(* A model of the retrieval core of backend/app.py: the per-session        *)
(* ephemeral upload store (_ephemeral_add, _ephemeral_retrieve), the       *)
(* reciprocal rank fusion (_rrf_merge) and the context builder             *)
(* (_build_context_bundle).                                                *)
(*                                                                         *)
(* Python strings are sequences of one-character strings, so that split,   *)
(* the substring test `in`, len and slicing are computed as Python does.   *)
(* An optional value is a sequence of length at most one: None is << >>.   *)
(***************************************************************************)
EXTENDS Integers, Sequences, FiniteSets, TLC

VARIABLES
    EPHEMERAL_SESSIONS,  \* app.py:442, session id -> store, DOMAIN = live ids
    clock,               \* the value time.time() returned last
    rag_instance,        \* RetrieverManager._instance: 0 is None, else the index build it loaded
    index_build,         \* data/index.faiss + data/docs.pkl on disk: 0 is missing, else the build
    mem_db,              \* the durable memory store (memory.sqlite): set of memory rows
    mem_item,            \* the mem_item table of memory.sqlite: the structured memory rows
    result,              \* what the last call returned
    added,               \* history: the <<session id, item>> pairs passed to _ephemeral_add
    rrf_in,              \* the hit_lists argument of _rrf_merge: the caller's lists of hit dicts
    rrf_in0,             \* history: hit_lists as the caller built it
    rrf_calls,           \* the calls of _rrf_merge made on rrf_in, with what each returned
    bm25_build,          \* RAG._bm25 of the instance: 0 is None, else the build of the docs.pkl it read
    add_task,            \* the _ephemeral_add call in progress, << >> when there is none
    reindex_pc,          \* where admin_reindex stands: "idle", "ingested" or "reset"
    prompt_lru           \* app.py:118 _prompt_lru, the OrderedDict as its (key, value) pairs in order

rrfVars == <<rrf_in, rrf_in0, rrf_calls>>

ragVars == <<bm25_build>>

taskVars == <<add_task, reindex_pc>>

cacheVars == <<prompt_lru>>

vars == <<EPHEMERAL_SESSIONS, clock, rag_instance, index_build, mem_db, mem_item, result, added,
          rrf_in, rrf_in0, rrf_calls, bm25_build, add_task, reindex_pc, prompt_lru>>

----------------------------------------------------------------------------
(* Python values *)

None == << >>

Some(x) == <<x>>

IsNone(o) == o = << >>

Max2(a, b) == IF a >= b THEN a ELSE b

Min2(a, b) == IF a <= b THEN a ELSE b

\* s[-n:] for n > 0
LastN(s, n) == SubSeq(s, Max2(1, Len(s) - n + 1), Len(s))

\* s[:n] for n >= 0
FirstN(s, n) == SubSeq(s, 1, Min2(n, Len(s)))

\* str.lower() on the characters the model uses
LowerChar(c) ==
    CASE c = "H" -> "h"
      [] c = "T" -> "t"
      [] OTHER -> c

Lower(s) == [i \in 1..Len(s) |-> LowerChar(s[i])]

\* Python's `w in s` for strings
IsSubstr(w, s) ==
    \E i \in 1..(Len(s) - Len(w) + 1) : SubSeq(s, i, i + Len(w) - 1) = w

\* str.split(): the maximal runs of non-blank characters, in order
RECURSIVE SplitFrom(_, _, _)
SplitFrom(s, i, cur) ==
    IF i > Len(s)
    THEN IF cur = << >> THEN << >> ELSE <<cur>>
    ELSE IF s[i] = " "
         THEN (IF cur = << >> THEN << >> ELSE <<cur>>) \o SplitFrom(s, i + 1, << >>)
         ELSE SplitFrom(s, i + 1, Append(cur, s[i]))

Split(s) == SplitFrom(s, 1, << >>)

NL == "\n"

\* the whitespace str.strip() removes and \s matches
WHITESPACE == {" ", "\t", "\n"}

\* the characters \w matches, among those of the model
WORD_CHARS ==
    {"a", "b", "c", "d", "e", "f", "g", "h", "i", "j", "k", "l", "m", "n", "o", "p", "q",
     "r", "s", "t", "u", "v", "w", "x", "y", "z", "H", "I", "T", "_",
     "0", "1", "2", "3", "4", "5", "6", "7", "8", "9"}

RECURSIVE LStrip(_)
LStrip(s) == IF s # << >> /\ s[1] \in WHITESPACE THEN LStrip(Tail(s)) ELSE s

RECURSIVE RStrip(_)
RStrip(s) ==
    IF s # << >> /\ s[Len(s)] \in WHITESPACE THEN RStrip(SubSeq(s, 1, Len(s) - 1)) ELSE s

\* str.strip()
Strip(s) == RStrip(LStrip(s))

\* str(n) for n >= 0
DigitChars == <<"0", "1", "2", "3", "4", "5", "6", "7", "8", "9">>

RECURSIVE IntStr(_)
IntStr(n) ==
    IF n < 10 THEN <<DigitChars[n + 1]>>
    ELSE IntStr(n \div 10) \o <<DigitChars[(n % 10) + 1]>>

Range(s) == {s[i] : i \in 1..Len(s)}

----------------------------------------------------------------------------
(* The embedding model.  sentence-transformers is outside the repository:   *)
(* a vector is modelled by the text it encodes and the dot product of two   *)
(* vectors by the number of distinct lower-cased words the texts share.     *)

Embed(text) == [of |-> text]

WordSet(text) == Range(Split(Lower(text)))

Dot(v, qv) == Cardinality(WordSet(v.of) \cap WordSet(qv.of))

\* embed_fn(texts): one row per text, in order
EmbedAll(texts) == [i \in 1..Len(texts) |-> Embed(texts[i])]

----------------------------------------------------------------------------
(* RetrieverManager.get_retriever_sync *)

\* TRUE iff the call returns a RAG instead of raising: the singleton is
\* already loaded, or make_faiss_retriever finds the index files
RetrieverLoads(inst, build) == inst # 0 \/ build # 0

\* RetrieverManager._instance after the call
InstanceAfterGet(inst, build) == IF inst # 0 THEN inst ELSE build

----------------------------------------------------------------------------
(* The ephemeral session store *)

MAX_EPHEMERAL_SESSIONS == 10

MAX_VECTORS_PER_SESSION == 50

RECENT_CAP == 24

\* the dict literal of setdefault
NewStore == [vecs |-> None, items |-> << >>, recent |-> << >>, last_added_at |-> 0]

\* EPHEMERAL_SESSIONS.setdefault(session_id, {...})
SetDefault(sessions, sid) ==
    IF sid \in DOMAIN sessions THEN sessions
    ELSE [s \in DOMAIN sessions \cup {sid} |->
            IF s = sid THEN NewStore ELSE sessions[s]]

\* sorted(EPHEMERAL_SESSIONS.items(), key=last_added_at)[:n] as a set of ids.
\* Every live store was stamped by a distinct, later reading of the clock,
\* so the n smallest stamps name n sessions.
OldestSids(sessions, n) ==
    {s \in DOMAIN sessions :
        Cardinality({t \in DOMAIN sessions :
            sessions[t].last_added_at < sessions[s].last_added_at}) < n}

\* lines 459-465: the cleanup of old sessions
EvictOldSessions(sessions) ==
    IF Cardinality(DOMAIN sessions) >= MAX_EPHEMERAL_SESSIONS
    THEN LET gone == OldestSids(sessions, Cardinality(DOMAIN sessions) \div 2)
         IN  [s \in DOMAIN sessions \ gone |-> sessions[s]]
    ELSE sessions

\* lines 468-478: store["vecs"] after the add
StackVecs(old_vecs, vecs) ==
    IF IsNone(old_vecs) THEN Some(vecs)
    ELSE IF Len(old_vecs[1]) >= MAX_VECTORS_PER_SESSION
         THEN Some(LastN(old_vecs[1], MAX_VECTORS_PER_SESSION \div 2) \o vecs)
         ELSE Some(old_vecs[1] \o vecs)

\* lines 484-491: items, recent and last_added_at of the store
TrackItems(store, texts_with_paths, now) ==
    [store EXCEPT
        !.items = store.items \o texts_with_paths,
        !.recent = LastN(store.recent \o texts_with_paths, RECENT_CAP),
        !.last_added_at = now]

\* The store map after _ephemeral_add(session_id, texts_with_paths), where
\* ok says that get_retriever_sync and embed_fn returned, and now is time.time()
EphemeralAddStore(sessions, sid, twps, ok, now) ==
    IF sid = "" THEN sessions
    ELSE IF ok
    THEN IF twps = << >> THEN sessions
         ELSE LET vecs == EmbedAll([i \in 1..Len(twps) |-> twps[i].text])
                  kept == SetDefault(EvictOldSessions(sessions), sid)
                  st   == [kept[sid] EXCEPT !.vecs = StackVecs(kept[sid].vecs, vecs)]
              IN  [kept EXCEPT ![sid] = TrackItems(st, twps, now)]
    ELSE LET kept == SetDefault(sessions, sid)
         IN  [kept EXCEPT ![sid] = TrackItems(kept[sid], twps, now)]

\* line 454: texts = [twp["text"] for twp in texts_with_paths]
TextsOfItems(twps) == [i \in 1..Len(twps) |-> twps[i].text]

\* lines 461-462: the ids of sorted(EPHEMERAL_SESSIONS.items(),
\* key=last_added_at), oldest first
RECURSIVE SortedSids(_)
SortedSids(sessions) ==
    IF DOMAIN sessions = {} THEN << >>
    ELSE LET first == CHOOSE s \in DOMAIN sessions :
                         \A t \in DOMAIN sessions :
                             sessions[s].last_added_at <= sessions[t].last_added_at
         IN  <<first>> \o SortedSids([s \in DOMAIN sessions \ {first} |-> sessions[s]])

\* vecs.shape[0] of a store, 0 when vecs is None
VecRows(store) == IF IsNone(store.vecs) THEN 0 ELSE Len(store.vecs[1])

----------------------------------------------------------------------------
(* _ephemeral_retrieve *)

EPH_ID == <<"e", "p", "h", "e", "m", "e", "r", "a", "l", ":", ":">>

\* np.argsort(-scores)[:k]: the 0-based positions of the k largest scores,
\* largest first, equal scores in position order
RECURSIVE ArgSortDesc(_, _, _)
ArgSortDesc(scores, taken, k) ==
    IF k <= 0 \/ Cardinality(taken) >= Len(scores) THEN << >>
    ELSE LET rest == (1..Len(scores)) \ taken
             best == CHOOSE i \in rest :
                        \A j \in rest : scores[i] > scores[j]
                                        \/ (scores[i] = scores[j] /\ i <= j)
         IN  <<best - 1>> \o ArgSortDesc(scores, taken \cup {best}, k - 1)

\* a lookup that ignores the session id
SessionStoreAny(sessions, sid) == sessions[CHOOSE s \in DOMAIN sessions : TRUE]

\* store = EPHEMERAL_SESSIONS[session_id]
SessionStore(sessions, sid) == sessions[sid]

\* lines 500-519: the embedding path
RetrieveByVectors(store, query, top_k) ==
    IF VecRows(store) = 0 THEN << >>
    ELSE LET qv     == Embed(query)
             vecs   == store.vecs[1]
             scores == [i \in 1..Len(vecs) |-> Dot(vecs[i], qv)]
             idx    == ArgSortDesc(scores, {}, top_k)
         IN  [r \in 1..Len(idx) |->
                [rank  |-> r,
                 score |-> scores[idx[r] + 1],
                 text  |-> store.items[idx[r] + 1].text,
                 path  |-> store.items[idx[r] + 1].path,
                 id    |-> EPH_ID \o IntStr(idx[r])]]

\* line 534: the number of query words longer than 2 that occur in the text
KeywordScore(query_lower, text_lower) ==
    LET ws == Split(query_lower)
    IN  Cardinality({i \in 1..Len(ws) : IsSubstr(ws[i], text_lower) /\ Len(ws[i]) > 2})

\* lines 531-542: the hits in item order, ranked as they are appended
RECURSIVE KeywordHits(_, _, _, _)
KeywordHits(items, query_lower, i, hits) ==
    IF i > Len(items) THEN hits
    ELSE LET score == KeywordScore(query_lower, Lower(items[i].text))
         IN  KeywordHits(items, query_lower, i + 1,
                IF score > 0
                THEN Append(hits, [rank  |-> Len(hits) + 1,
                                   score |-> score,
                                   text  |-> items[i].text,
                                   path  |-> items[i].path,
                                   id    |-> EPH_ID \o IntStr(i - 1)])
                ELSE hits)

\* list.sort(key=score, reverse=True): stable, largest score first
RECURSIVE SortByScoreDesc(_)
SortByScoreDesc(hits) ==
    IF hits = << >> THEN << >>
    ELSE LET best == CHOOSE i \in 1..Len(hits) :
                        \A j \in 1..Len(hits) : hits[i].score > hits[j].score
                                        \/ (hits[i].score = hits[j].score /\ i <= j)
         IN  <<hits[best]>> \o
             SortByScoreDesc(SubSeq(hits, 1, best - 1) \o SubSeq(hits, best + 1, Len(hits)))

\* lines 523-546: the keyword fallback
RetrieveByKeywords(store, query, top_k) ==
    IF store.items = << >> THEN << >>
    ELSE FirstN(SortByScoreDesc(KeywordHits(store.items, Lower(query), 1, << >>)), top_k)

\* _ephemeral_retrieve(session_id, query, top_k)
EphemeralRetrieve(sessions, sid, query, top_k, ok) ==
    IF sid = "" \/ sid \notin DOMAIN sessions THEN << >>
    ELSE IF ok THEN RetrieveByVectors(SessionStore(sessions, sid), query, top_k)
         ELSE RetrieveByKeywords(SessionStore(sessions, sid), query, top_k)

----------------------------------------------------------------------------
(* Inputs of the ephemeral-store specification *)

MaxClock == 2

T_hike_trail == <<"h","i","k","e"," ","t","r","a","i","l">>

T_cat == <<"c","a","t">>

T_Hike_to == <<"H","i","k","e"," ","t","o">>

Q_hike == <<"h","i","k","e">>

Q_cat_trail == <<"c","a","t"," ","t","r","a","i","l">>

Q_to == <<"t","o">>

N_a_md == <<"a",".","m","d">>

N_b_md == <<"b",".","m","d">>

CHUNK_SEP == <<":", ":", "c", "h", "u", "n", "k">>

\* an uploaded file after decoding and smart_chunk: its name and its chunks
File(name, chunks) == [name |-> name, chunks |-> chunks]

EphUploads ==
    { <<File(N_a_md, <<T_hike_trail>>)>>,
      <<File(N_b_md, << >>), File(N_b_md, <<T_cat, T_Hike_to>>)>>,
      <<File(N_b_md, << >>)>> }

EphSids == {"", "A", "B"}

EphQueries == {Q_hike, Q_cat_trail}

EphTopK == {1, 5}

----------------------------------------------------------------------------
(* Actions *)

\* lines 1643-1669: the {"text", "path"} records of the uploaded files
RECURSIVE TextsWithPaths(_)
TextsWithPaths(files) ==
    IF files = << >> THEN << >>
    ELSE LET f == files[1]
         IN  [ci \in 1..Len(f.chunks) |->
                [text |-> f.chunks[ci], path |-> f.name \o CHUNK_SEP \o IntStr(ci - 1)]]
             \o TextsWithPaths(Tail(files))

\* lines 1639-1673: what POST /upload does to the process state
upload_store(session_id, files, embed_ok) ==
    LET twps  == TextsWithPaths(files)
        loads == RetrieverLoads(rag_instance, index_build)
    IN  IF session_id = ""
           THEN /\ result' = [op |-> "upload", status |-> 400, added |-> 0]
                /\ UNCHANGED <<EPHEMERAL_SESSIONS, clock, rag_instance, added>>
           ELSE IF twps = << >>
           THEN /\ result' = [op |-> "upload", status |-> 200, added |-> 0]
                /\ UNCHANGED <<EPHEMERAL_SESSIONS, clock, rag_instance, added>>
           ELSE /\ EPHEMERAL_SESSIONS' =
                      EphemeralAddStore(EPHEMERAL_SESSIONS, session_id, twps,
                                        loads /\ embed_ok, clock + 1)
                /\ clock' = clock + 1
                /\ rag_instance' = InstanceAfterGet(rag_instance, index_build)
                /\ added' = added \cup {<<session_id, twps[i]>> : i \in 1..Len(twps)}
                /\ result' = [op |-> "upload", status |-> 200, added |-> Len(twps)]

\* an upload that also saves each chunk as a memory row
upload_files_persisting(session_id, files, embed_ok) ==
    /\ upload_store(session_id, files, embed_ok)
    /\ UNCHANGED <<cacheVars, rrfVars, ragVars, taskVars>>
    /\ index_build' = index_build
    /\ UNCHANGED mem_item
    /\ mem_db' = mem_db \o
          [i \in 1..Len(TextsWithPaths(files)) |->
              [id |-> Len(mem_db) + i, user_id |-> "u1", ts |-> clock,
               type |-> <<"n","o","t","e">>, content |-> TextsWithPaths(files)[i].text]]

\* POST /upload
upload_files(session_id, files, embed_ok) ==
    /\ upload_store(session_id, files, embed_ok)
    /\ UNCHANGED <<index_build, mem_db, mem_item>>
    /\ UNCHANGED <<cacheVars, rrfVars, ragVars, taskVars>>

\* a retrieval that creates the store it does not find
ephemeral_retrieve_creating(session_id, query, top_k, embed_ok) ==
    /\ result' = [op |-> "retrieve", sid |-> session_id, query |-> query,
                  top_k |-> top_k, via |-> "absent", hits |-> << >>]
    /\ EPHEMERAL_SESSIONS' = SetDefault(EPHEMERAL_SESSIONS, session_id)
    /\ UNCHANGED <<clock, rag_instance, index_build, mem_db, mem_item, added>>
    /\ UNCHANGED <<cacheVars, rrfVars, ragVars, taskVars>>

\* a call of _ephemeral_retrieve(session_id, query, top_k)
ephemeral_retrieve(session_id, query, top_k, embed_ok) ==
    LET live  == session_id # "" /\ session_id \in DOMAIN EPHEMERAL_SESSIONS
        loads == RetrieverLoads(rag_instance, index_build)
    IN  /\ result' = [op |-> "retrieve", sid |-> session_id, query |-> query,
                      top_k |-> top_k,
                      via |-> IF ~live THEN "absent"
                              ELSE IF loads /\ embed_ok THEN "vectors" ELSE "keywords",
                      hits |-> EphemeralRetrieve(EPHEMERAL_SESSIONS, session_id, query,
                                                 top_k, loads /\ embed_ok)]
        /\ rag_instance' = IF live THEN InstanceAfterGet(rag_instance, index_build)
                           ELSE rag_instance
        /\ UNCHANGED <<EPHEMERAL_SESSIONS, clock, index_build, mem_db, mem_item, added>>
        /\ UNCHANGED <<cacheVars, rrfVars, ragVars, taskVars>>

\* python ingest.py --force: the index files are rebuilt on disk; the running
\* process keeps the retriever it has loaded
ingest_main(build) ==
    /\ build # index_build
    /\ index_build' = build
    /\ result' = [op |-> "ingest"]
    /\ UNCHANGED <<EPHEMERAL_SESSIONS, clock, rag_instance, mem_db, mem_item, added>>
    /\ UNCHANGED <<cacheVars, rrfVars, ragVars, taskVars>>

----------------------------------------------------------------------------
(* The dense index and the memory table *)

D_trail == [id |-> <<"d","1">>, text |-> T_hike_trail, relpath |-> N_a_md]

D_cat == [id |-> <<"d","2">>, text |-> T_cat, relpath |-> N_b_md]

D_to == [id |-> <<"d","3">>, text |-> T_Hike_to, relpath |-> N_b_md]

D_map == [id |-> <<"d","4">>, text |-> <<"t", "r", "a", "i", "l", " ", "m", "a", "p">>, relpath |-> N_a_md]

D_nap == [id |-> <<"d","5">>, text |-> <<"c", "a", "t", " ", "n", "a", "p">>, relpath |-> N_b_md]

\* docs.pkl of an index build: the chunk records, in index order
Docs(build) ==
    CASE build = 1 -> <<D_trail, D_cat>>
      [] build = 2 -> <<D_cat, D_to, D_trail>>
      [] build = 3 -> <<D_trail, D_cat, D_to, D_map, D_nap>>
      [] OTHER -> << >>

\* index.search(query_vec, top_k) of IndexFlatIP, the row I[0]: the positions
\* of the top_k largest inner products, nearest first, padded with -1 when
\* the index holds fewer than top_k vectors
FaissSearch(scores, top_k) ==
    LET found == ArgSortDesc(scores, {}, top_k)
    IN  [r \in 1..top_k |-> IF r <= Len(found) THEN found[r] ELSE -1]

\* rag.py 33-43: the hit built for rank r of the result I of the index
RetrieverHit(docs, scores, I, r) ==
    [rank  |-> r,
     score |-> scores[I[r] + 1],
     text  |-> docs[I[r] + 1].text,
     path  |-> docs[I[r] + 1].relpath,
     id    |-> docs[I[r] + 1].id]

\* rag.py 34-35: the ranks of I that hold a row of the index
KeptRanks(I) == SelectSeq([r \in 1..Len(I) |-> r], LAMBDA r : ~(I[r] < 0))

\* rag.py 32-44: the hits of the rows I that the index returned
RetrieverHits(docs, scores, I) ==
    LET kept == KeptRanks(I)
    IN  [n \in 1..Len(kept) |-> RetrieverHit(docs, scores, I, kept[n])]

\* the inner products of the rows of the index with the query vector
IndexScores(docs, qv) == [i \in 1..Len(docs) |-> Dot(Embed(docs[i].text), qv)]

RetrieverSearchDocs(docs, qv, top_k) ==
    LET scores == IndexScores(docs, qv)
    IN  RetrieverHits(docs, scores, FaissSearch(scores, top_k))

\* Retriever.search(query_vec, top_k) over the index of a build
RetrieverSearch(build, query, top_k) == RetrieverSearchDocs(Docs(build), Embed(query), top_k)

\* the rows of the memories table in ORDER BY ts DESC
RECURSIVE OrderByTsDesc(_)
OrderByTsDesc(rows) ==
    IF rows = << >> THEN << >>
    ELSE LET best == CHOOSE i \in 1..Len(rows) :
                        \A j \in 1..Len(rows) : rows[i].ts > rows[j].ts
                                        \/ (rows[i].ts = rows[j].ts /\ i <= j)
         IN  <<rows[best]>> \o
             OrderByTsDesc(SubSeq(rows, 1, best - 1) \o SubSeq(rows, best + 1, Len(rows)))

\* memory.search_memories(user_id, query, limit): content LIKE %q% OR type LIKE %q%
SearchMemories(db, user_id, query, limit) ==
    LET match == SelectSeq(db, LAMBDA r :
                    /\ r.user_id = user_id
                    /\ \/ IsSubstr(Lower(query), Lower(r.content))
                       \/ IsSubstr(Lower(query), Lower(r.type)))
    IN  IF query = << >> THEN << >> ELSE FirstN(OrderByTsDesc(match), limit)

\* memory.add_memory(user_id, content, mtype="note")
add_memory(user_id, content) ==
    /\ user_id # "" /\ content # << >>
    /\ UNCHANGED mem_item
    /\ mem_db' = Append(mem_db, [id |-> Len(mem_db) + 1, user_id |-> user_id, ts |-> clock,
                                 type |-> <<"n","o","t","e">>, content |-> content])
    /\ result' = [op |-> "add_memory", id |-> Len(mem_db) + 1]
    /\ UNCHANGED <<EPHEMERAL_SESSIONS, clock, rag_instance, index_build, added>>
    /\ UNCHANGED <<cacheVars, rrfVars, ragVars, taskVars>>

\* the rows of the mem_item table in ORDER BY updated_at DESC
RECURSIVE OrderByUpdatedDesc(_)
OrderByUpdatedDesc(rows) ==
    IF rows = << >> THEN << >>
    ELSE LET best == CHOOSE i \in 1..Len(rows) :
                        \A j \in 1..Len(rows) :
                            \/ rows[i].updated_at > rows[j].updated_at
                            \/ (rows[i].updated_at = rows[j].updated_at /\ i <= j)
         IN  <<rows[best]>> \o
             OrderByUpdatedDesc(SubSeq(rows, 1, best - 1) \o SubSeq(rows, best + 1, Len(rows)))

\* memory.list_mem_items(user_id, limit=limit)
ListMemItems(items, user_id, limit) ==
    FirstN(OrderByUpdatedDesc(SelectSeq(items, LAMBDA r : r.user_id = user_id)), limit)

\* the row upsert_mem_item writes
MemItemRow(user_id, item_id, kind, title, body, pinned, now) ==
    [id |-> item_id, user_id |-> user_id, kind |-> kind, title |-> title, body |-> body,
     pinned |-> pinned, updated_at |-> now]

\* memory.upsert_mem_item: UPDATE the row of this id and user, else INSERT
UpsertMemItem(items, row) ==
    IF \E i \in 1..Len(items) : items[i].id = row.id /\ items[i].user_id = row.user_id
    THEN [i \in 1..Len(items) |->
            IF items[i].id = row.id /\ items[i].user_id = row.user_id THEN row ELSE items[i]]
    ELSE Append(items, row)

\* memory.create_mem_item(user_id, kind, title, body, pinned=pinned, item_id=item_id)
create_mem_item(user_id, kind, title, body, pinned, item_id) ==
    /\ user_id # "" /\ kind # << >> /\ item_id # << >>
    /\ mem_item' = UpsertMemItem(mem_item,
                                 MemItemRow(user_id, item_id, kind, title, body, pinned, clock))
    /\ result' = [op |-> "create_mem_item", id |-> item_id]
    /\ UNCHANGED <<EPHEMERAL_SESSIONS, clock, rag_instance, index_build, mem_db, added>>
    /\ UNCHANGED <<cacheVars, rrfVars, ragVars, taskVars>>

----------------------------------------------------------------------------
(* Specification of the frame of the ephemeral store: uploads and          *)
(* retrievals beside index rebuilds and memory writes                      *)

MaxBuild == 2

MaxMem == 1

FrameTopK == 5

\* the build whose index a retrieval call is served from: 0 when the call raises
ServedBuild(inst, build) == InstanceAfterGet(inst, build)

\* the doc hits and the memory hits a caller gets in a state
DocHitsOf(inst, build, q) == RetrieverSearch(ServedBuild(inst, build), q, FrameTopK)

MemHitsOf(db, u, q) == SearchMemories(db, u, q, FrameTopK)

InitFrame ==
    /\ rrf_in = << >> /\ rrf_in0 = << >> /\ rrf_calls = << >>
    /\ EPHEMERAL_SESSIONS = << >>
    /\ clock = 0
    /\ rag_instance = 0
    /\ index_build \in 0..1
    /\ mem_db = << >>
    /\ mem_item = << >>
    /\ prompt_lru = << >>
    /\ result = [op |-> "init"]
    /\ added = {}
    /\ bm25_build = 0
    /\ add_task = << >>
    /\ reindex_pc = "idle"

NextFrame ==
    \/ \E ok \in BOOLEAN :
          clock < MaxClock /\ upload_files("A", <<File(N_a_md, <<T_hike_trail>>)>>, ok)
    \/ \E ok \in BOOLEAN :
          ephemeral_retrieve("A", Q_hike, FrameTopK, ok)
    \/ \E b \in 1..MaxBuild : ingest_main(b)
    \/ Len(mem_db) < MaxMem /\ add_memory("u1", T_hike_trail)

SpecFrame == InitFrame /\ [][NextFrame]_vars

\* C2 (never persisted): a step of _ephemeral_add or _ephemeral_retrieve
\* leaves the index files and the memory table as they are, and the doc hits
\* and memory hits of every query are the same after the step as before it
C2_NeverPersisted ==
    [][result'.op \in {"upload", "retrieve"} =>
          /\ index_build' = index_build
          /\ mem_db' = mem_db
          /\ \A q \in EphQueries :
                /\ DocHitsOf(rag_instance', index_build', q)
                      = DocHitsOf(rag_instance, index_build, q)
                /\ MemHitsOf(mem_db', "u1", q) = MemHitsOf(mem_db, "u1", q)]_vars

\* an upload was stored in a session while the served index holds a chunk
\* and the memory table a row that a query finds
C2_Witness ==
    /\ result.op = "upload"
    /\ result.added > 0
    /\ DOMAIN EPHEMERAL_SESSIONS # {}
    /\ rag_instance # index_build
    /\ \E q \in EphQueries :
          /\ DocHitsOf(rag_instance, index_build, q) # << >>
          /\ MemHitsOf(mem_db, "u1", q) # << >>

----------------------------------------------------------------------------
(* Specification of the ephemeral store: uploads and retrievals over two   *)
(* sessions, with the retriever present or missing                         *)

InitEph ==
    /\ rrf_in = << >> /\ rrf_in0 = << >> /\ rrf_calls = << >>
    /\ EPHEMERAL_SESSIONS = << >>
    /\ clock = 0
    /\ rag_instance = 0
    /\ index_build \in 0..1
    /\ mem_db = << >>
    /\ mem_item = << >>
    /\ prompt_lru = << >>
    /\ result = [op |-> "init"]
    /\ added = {}
    /\ bm25_build = 0
    /\ add_task = << >>
    /\ reindex_pc = "idle"

NextEph ==
    \/ \E sid \in EphSids, files \in EphUploads, ok \in BOOLEAN :
          clock < MaxClock /\ upload_files(sid, files, ok)
    \/ \E sid \in EphSids, q \in EphQueries, k \in EphTopK, ok \in BOOLEAN :
          ephemeral_retrieve(sid, q, k, ok)

SpecEph == InitEph /\ [][NextEph]_vars

\* C1 (ephemeral isolation): every hit that _ephemeral_retrieve returns for a
\* session carries the text and path of an item that was added under that
\* very session, in the embedding path and in the keyword path
C1_Isolation ==
    result.op = "retrieve" =>
        \A i \in 1..Len(result.hits) :
            <<result.sid, [text |-> result.hits[i].text, path |-> result.hits[i].path]>>
                \in added

\* B is asked, by vectors, for a word that only an item of A holds, and B
\* answers with its own items
C1_Witness ==
    /\ result.op = "retrieve"
    /\ result.sid = "B"
    /\ result.via = "vectors"
    /\ result.hits # << >>
    /\ \E p \in added :
          /\ p[1] = "A"
          /\ <<"B", p[2]>> \notin added
          /\ Dot(Embed(p[2].text), Embed(result.query)) > 0

----------------------------------------------------------------------------
(* Specification of the per-session trim: uploads of one or two chunks to   *)
(* one session, with the retriever loaded, until the trim has run twice     *)

MaxTrimAdds == 60

\* at most this many uploads of a run carry two chunks
MaxPairs == 1

\* the text of the k-th chunk ever uploaded
NumberedText(k) == <<"n">> \o IntStr(k)

\* a file of n chunks not uploaded before
FreshFile(first, n) == File(N_a_md, [i \in 1..n |-> NumberedText(first + i - 1)])

TrimSid == "s1"

\* the number of chunks uploaded so far
Uploaded == Cardinality(added)

InitTrim ==
    /\ rrf_in = << >> /\ rrf_in0 = << >> /\ rrf_calls = << >>
    /\ EPHEMERAL_SESSIONS = << >>
    /\ clock = 0
    /\ rag_instance = 0
    /\ index_build = 1
    /\ mem_db = << >>
    /\ mem_item = << >>
    /\ prompt_lru = << >>
    /\ result = [op |-> "init"]
    /\ added = {}
    /\ bm25_build = 0
    /\ add_task = << >>
    /\ reindex_pc = "idle"

NextTrim ==
    \/ \E n \in 1..2 :
          /\ clock < MaxTrimAdds
          /\ n = 2 => Uploaded - clock < MaxPairs
          /\ upload_files(TrimSid, <<FreshFile(Uploaded + 1, n)>>, TRUE)
    \/ \E q \in {NumberedText(1), NumberedText(52)} :
          ephemeral_retrieve(TrimSid, q, 1, TRUE)

SpecTrim == InitTrim /\ [][NextTrim]_vars

\* C3 (items parallel to vectors): every live session stores as many items
\* as vector rows
C3_ItemsMatchVectors ==
    \A s \in DOMAIN EPHEMERAL_SESSIONS :
        Len(EPHEMERAL_SESSIONS[s].items) = VecRows(EPHEMERAL_SESSIONS[s])

\* C4 (ephemeral bounds): a session never stores more than
\* MAX_VECTORS_PER_SESSION vector rows, and the rows it stores are those of
\* the chunks uploaded last
C4_VectorsBounded ==
    \A s \in DOMAIN EPHEMERAL_SESSIONS :
        LET rows == VecRows(EPHEMERAL_SESSIONS[s])
        IN  /\ rows <= MAX_VECTORS_PER_SESSION
            /\ \A i \in 1..rows :
                  EPHEMERAL_SESSIONS[s].vecs[1][i] = Embed(NumberedText(Uploaded - rows + i))

----------------------------------------------------------------------------
(* Specification of the session cap: one-chunk uploads to ever new         *)
(* sessions and to sessions written before, first while the index files    *)
(* are missing and then, once ingest has built them, with the retriever    *)

NumSessions == 12

MaxReAdds == 1

SESSION_NAMES ==
    <<"s01", "s02", "s03", "s04", "s05", "s06", "s07", "s08", "s09", "s10",
      "s11", "s12", "s13", "s14">>

\* the session ids written so far
UsedSids == {p[1] : p \in added}

\* the uploads that went to a session id written before
ReAdds == Cardinality(added) - Cardinality(UsedSids)

InitSess ==
    /\ rrf_in = << >> /\ rrf_in0 = << >> /\ rrf_calls = << >>
    /\ EPHEMERAL_SESSIONS = << >>
    /\ clock = 0
    /\ rag_instance = 0
    /\ index_build \in 0..1
    /\ mem_db = << >>
    /\ mem_item = << >>
    /\ prompt_lru = << >>
    /\ result = [op |-> "init"]
    /\ added = {}
    /\ bm25_build = 0
    /\ add_task = << >>
    /\ reindex_pc = "idle"

NextSess ==
    \/ /\ Cardinality(UsedSids) < NumSessions
       /\ upload_files(SESSION_NAMES[Cardinality(UsedSids) + 1],
                       <<FreshFile(Uploaded + 1, 1)>>, TRUE)
    \/ \E sid \in UsedSids :
          /\ ReAdds < MaxReAdds
          /\ upload_files(sid, <<FreshFile(Uploaded + 1, 1)>>, TRUE)
    \/ index_build = 0 /\ ingest_main(1)

SpecSess == InitSess /\ [][NextSess]_vars

\* C5 (session cap): the store never holds more than MAX_EPHEMERAL_SESSIONS
\* live sessions
C5_SessionsBounded ==
    Cardinality(DOMAIN EPHEMERAL_SESSIONS) <= MAX_EPHEMERAL_SESSIONS

----------------------------------------------------------------------------
(* _rrf_merge.  A hit is a dict; a key it lacks reads as None.  The fused  *)
(* score 1/(k_rrf + rank) is kept exact as a multiple of 1/RrfDen(k_rrf).  *)
(* The table of the merge maps a key to a dict object: an entry records    *)
(* whether that object is a fresh dict or one of the caller's hits, so     *)
(* that a write to it lands where Python would put it.                     *)

MaxHits == 4

\* a value is truthy unless it is None or the empty string
Truthy(o) == o # << >> /\ o[1] # << >>

\* f"{x}" of an optional string
FormatOpt(o) == IF o = << >> THEN <<"N", "o", "n", "e">> ELSE o[1]

\* (x or "")
OrEmpty(o) == IF Truthy(o) THEN o[1] ELSE << >>

\* line 673: the identity key of a hit
RrfKey(h) ==
    IF Truthy(h.id) THEN h.id[1]
    ELSE FormatOpt(h.path) \o <<":", ":">> \o FirstN(OrEmpty(h.text), 50)

\* the common denominator of 1/(k_rrf + rank) for the ranks of the model
RECURSIVE RrfDenUpTo(_, _)
RrfDenUpTo(k_rrf, r) == IF r = 0 THEN 1 ELSE (k_rrf + r) * RrfDenUpTo(k_rrf, r - 1)

RrfDen(k_rrf) == RrfDenUpTo(k_rrf, MaxHits)

\* 1.0 / (k_rrf + rank)
RrfTerm(k_rrf, rank) == RrfDen(k_rrf) \div (k_rrf + rank)

\* an entry that is the caller's own dict, hit_lists[i][j]
NewEntryAliased(h, i, j) == [ref |-> <<i, j>>, rec |-> h]

\* a fresh dict that keeps the score of the hit
NewEntryKeepScore(h, i, j) == [ref |-> << >>, rec |-> h]

\* line 676: {**h, "score": 0.0}, a fresh dict
NewEntry(h, i, j) == [ref |-> << >>, rec |-> [h EXCEPT !.score = 0]]

\* the position of a key in the table, 0 when absent
KeyPos(keys, key) ==
    IF \E p \in 1..Len(keys) : keys[p] = key
    THEN CHOOSE p \in 1..Len(keys) : keys[p] = key
    ELSE 0

\* a lookup that never finds the key
PrevEntryFresh(st, pos, h, i, j) == NewEntry(h, i, j)

\* line 676: table.get(key) or {**h, "score": 0.0}
PrevEntry(st, pos, h, i, j) == IF pos = 0 THEN NewEntry(h, i, j) ELSE st.entries[pos]

\* lines 673-683: one iteration of the inner loop, on hit_lists[i][j]
RrfStep(st, i, j, k_rrf) ==
    LET h     == st.lists[i][j]
        key   == RrfKey(h)
        pos   == KeyPos(st.keys, key)
        entry == PrevEntry(st, pos, h, i, j)
        prev0 == entry.rec
        prev1 == [prev0 EXCEPT !.score = prev0.score + RrfTerm(k_rrf, j)]
        prev2 == IF Truthy(h.text) /\ Len(h.text[1]) > Len(OrEmpty(prev1.text))
                 THEN [prev1 EXCEPT !.text = h.text] ELSE prev1
        prev3 == IF Truthy(h.path) THEN [prev2 EXCEPT !.path = h.path] ELSE prev2
        done  == [entry EXCEPT !.rec = prev3]
    IN  IF key = << >> THEN st
        ELSE [lists   |-> IF entry.ref = << >> THEN st.lists
                          ELSE [st.lists EXCEPT ![entry.ref[1]][entry.ref[2]] = prev3],
              keys    |-> IF pos = 0 THEN Append(st.keys, key) ELSE st.keys,
              entries |-> IF pos = 0 THEN Append(st.entries, done)
                          ELSE [st.entries EXCEPT ![pos] = done]]

\* lines 671-683: the two loops, from hit_lists[i][j] on
RECURSIVE RrfFold(_, _, _, _)
RrfFold(st, i, j, k_rrf) ==
    IF i > Len(st.lists) THEN st
    ELSE IF j > Len(st.lists[i]) THEN RrfFold(st, i + 1, 1, k_rrf)
    ELSE RrfFold(RrfStep(st, i, j, k_rrf), i, j + 1, k_rrf)

\* the table's values left in table order
SortEntriesNone(keys, recs) == [keys |-> keys, hits |-> recs]

\* lines 684-685: the table's values, largest score first, ties in table order
RECURSIVE SortEntriesDesc(_, _)
SortEntriesDesc(keys, recs) ==
    IF recs = << >> THEN [keys |-> << >>, hits |-> << >>]
    ELSE LET best == CHOOSE i \in 1..Len(recs) :
                        \A j \in 1..Len(recs) : recs[i].score > recs[j].score
                                        \/ (recs[i].score = recs[j].score /\ i <= j)
             rest == SortEntriesDesc(
                        SubSeq(keys, 1, best - 1) \o SubSeq(keys, best + 1, Len(keys)),
                        SubSeq(recs, 1, best - 1) \o SubSeq(recs, best + 1, Len(recs)))
         IN  [keys |-> <<keys[best]>> \o rest.keys, hits |-> <<recs[best]>> \o rest.hits]

\* _rrf_merge(hit_lists, top_k, k_rrf): the returned hits with their keys,
\* and hit_lists as the call leaves it
RrfMerge(hit_lists, top_k, k_rrf) ==
    LET st     == RrfFold([lists |-> hit_lists, keys |-> << >>, entries |-> << >>],
                          1, 1, k_rrf)
        sorted == SortEntriesDesc(st.keys, [p \in 1..Len(st.entries) |-> st.entries[p].rec])
    IN  [lists |-> st.lists,
         keys  |-> FirstN(sorted.keys, top_k),
         hits  |-> FirstN(sorted.hits, top_k)]

----------------------------------------------------------------------------
(* Specification of _rrf_merge: the caller builds three hit lists, then     *)
(* calls the merge on them, and calls it again                              *)

K_RRF == 60

X50 == [i \in 1..50 |-> "x"]

H_a == [id |-> Some(<<"a">>), path |-> Some(<<"p">>), text |-> Some(<<"t","a">>), score |-> 9]

H_b == [id |-> Some(<<"b">>), path |-> None, text |-> Some(<<"t","b">>), score |-> 5]

H_c == [id |-> None, path |-> Some(<<"q">>), text |-> Some(X50), score |-> 2]

H_c_long == [id |-> None, path |-> Some(<<"q">>), text |-> Some(X50 \o <<"z">>), score |-> 1]

RrfPool == {H_a, H_b, H_c, H_c_long}

RrfTopK == {0, 2, 5}

\* [dense_hits, mem_sem_hits, eph_hits]: a run of hits cut in three
Cut3(f, c1, c2) == <<SubSeq(f, 1, c1), SubSeq(f, c1 + 1, c2), SubSeq(f, c2 + 1, Len(f))>>

InitRrf ==
    /\ \E n \in 0..MaxHits : \E f \in [1..n -> RrfPool] : \E c1 \in 0..n : \E c2 \in c1..n :
          rrf_in = Cut3(f, c1, c2)
    /\ rrf_in0 = rrf_in
    /\ rrf_calls = << >>
    /\ EPHEMERAL_SESSIONS = << >>
    /\ clock = 0
    /\ rag_instance = 0
    /\ index_build = 0
    /\ mem_db = << >>
    /\ mem_item = << >>
    /\ prompt_lru = << >>
    /\ result = [op |-> "init"]
    /\ added = {}
    /\ bm25_build = 0
    /\ add_task = << >>
    /\ reindex_pc = "idle"

\* a call _rrf_merge(rrf_in, top_k=top_k) with the default k_rrf
rrf_merge(top_k) ==
    LET m == RrfMerge(rrf_in, top_k, K_RRF)
    IN  /\ Len(rrf_calls) < 2
        /\ rrf_calls # << >> => top_k = rrf_calls[1].top_k
        /\ rrf_calls' = Append(rrf_calls, [top_k |-> top_k, keys |-> m.keys, hits |-> m.hits])
        /\ rrf_in' = m.lists
        /\ UNCHANGED <<rrf_in0, EPHEMERAL_SESSIONS, clock, rag_instance, index_build,
                       mem_db, mem_item, result, added, bm25_build, add_task, reindex_pc, prompt_lru>>

NextRrf == \E top_k \in RrfTopK : rrf_merge(top_k)

SpecRrf == InitRrf /\ [][NextRrf]_vars

\* the identity key of every hit of the caller's lists
KeysOf(lists) == [i \in 1..Len(lists) |-> [j \in 1..Len(lists[i]) |-> RrfKey(lists[i][j])]]

\* the <<list, rank>> places of a key table
Places(kt) == {pl \in (1..Len(kt)) \X (1..MaxHits) : pl[2] <= Len(kt[pl[1]])}

\* the places that hold the key
PlacesOf(kt, key) == {pl \in Places(kt) : kt[pl[1]][pl[2]] = key}

RECURSIVE SumTerms(_)
SumTerms(places) ==
    IF places = {} THEN 0
    ELSE LET pl == CHOOSE x \in places : TRUE
         IN  RrfTerm(K_RRF, pl[2]) + SumTerms(places \ {pl})

InputKeys(kt) == {kt[pl[1]][pl[2]] : pl \in Places(kt)}

RrfExample == <<<<H_a, H_b>>, <<H_b, H_c>>, << >>>>

\* C6 (RRF scoring): the score of every returned hit is the sum of
\* 1/(k_rrf + r) over the places of rank r that hold a hit of its key, and
\* dense [a, b] with lexical [b, c] comes out as b, a, c
C6_RrfScore ==
    rrf_calls # << >> =>
    LET kt == KeysOf(rrf_in0)
    IN  \A n \in 1..Len(rrf_calls) :
            /\ \A p \in 1..Len(rrf_calls[n].hits) :
                  rrf_calls[n].hits[p].score = SumTerms(PlacesOf(kt, rrf_calls[n].keys[p]))
            /\ (rrf_in0 = RrfExample /\ rrf_calls[n].top_k >= 3) =>
                  rrf_calls[n].keys = <<RrfKey(H_b), RrfKey(H_a), RrfKey(H_c)>>

\* the example was merged: b leads with 1/62 + 1/61
C6_Witness ==
    /\ rrf_in0 = RrfExample
    /\ rrf_calls # << >>
    /\ Len(rrf_calls[1].hits) = 3
    /\ rrf_calls[1].hits[1].score = RrfTerm(K_RRF, 2) + RrfTerm(K_RRF, 1)

\* C7 (shape of the result): one hit per key, scores non-increasing, length
\* min(top_k, distinct keys); no lists or top_k = 0 give the empty list
C7_RrfShape ==
    rrf_calls # << >> =>
    LET distinct == Cardinality(InputKeys(KeysOf(rrf_in0)))
    IN  \A n \in 1..Len(rrf_calls) :
            LET c == rrf_calls[n]
            IN  /\ \A p, q \in 1..Len(c.keys) : p # q => c.keys[p] # c.keys[q]
                /\ \A p \in 1..(Len(c.hits) - 1) : c.hits[p].score >= c.hits[p + 1].score
                /\ Len(c.hits) = Min2(c.top_k, distinct)
                /\ Len(c.keys) = Len(c.hits)
                /\ (c.top_k = 0 \/ rrf_in0 = << << >>, << >>, << >> >>) => c.hits = << >>

\* three keys, one of them in two lists, were cut to the best two, and the
\* first list did not start with the best hit
C7_Witness ==
    /\ rrf_calls # << >>
    /\ rrf_calls[1].top_k = 2
    /\ Len(rrf_calls[1].hits) = 2
    /\ rrf_in0[1] # << >>
    /\ rrf_calls[1].keys[1] # RrfKey(rrf_in0[1][1])
    /\ LET kt == KeysOf(rrf_in0)
       IN  /\ Cardinality(InputKeys(kt)) = 3
           /\ \E key \in InputKeys(kt) : Cardinality(PlacesOf(kt, key)) = 2

\* C8 (purity): a call leaves the caller's lists and hit dicts as they were,
\* and two calls with the same arguments return the same hits in the same order
C8_RrfPure ==
    /\ rrf_in = rrf_in0
    /\ \A m, n \in 1..Len(rrf_calls) :
          rrf_calls[m].top_k = rrf_calls[n].top_k => rrf_calls[m] = rrf_calls[n]

\* the merge ran twice on lists in which a key occurs twice and the later
\* hit brings the longer text
C8_Witness ==
    /\ Len(rrf_calls) = 2
    /\ rrf_calls[2].hits # << >>
    /\ rrf_in0[1] = <<H_c>>
    /\ rrf_in0[2] = <<H_c_long>>
    /\ rrf_calls[2].hits[1].text = H_c_long.text

\* for every key and rank, the number of lists that hold the key at the rank
RankCounts(kt) ==
    [key \in InputKeys(kt) |->
        [r \in 1..MaxHits |->
            Cardinality({i \in 1..Len(kt) : r <= Len(kt[i]) /\ kt[i][r] = key})]]

\* x holds every rank y holds, as often or more often, and some rank more often
MoreLists(rc, x, y) ==
    /\ \A r \in 1..MaxHits : rc[y][r] <= rc[x][r]
    /\ \E r \in 1..MaxHits : rc[y][r] < rc[x][r]

\* C9 (RRF monotonicity): a hit that occurs at the ranks of another hit and
\* in one more list besides is scored strictly higher, so it is returned
\* whenever the other is, and before it
C9_RrfMonotone ==
    rrf_calls # << >> =>
        LET rc == RankCounts(KeysOf(rrf_in0))
        IN  \A x, y \in DOMAIN rc :
                MoreLists(rc, x, y) =>
                    \A n \in 1..Len(rrf_calls) :
                        \A q \in 1..Len(rrf_calls[n].keys) :
                            rrf_calls[n].keys[q] = y =>
                                \E p \in 1..(q - 1) :
                                    /\ rrf_calls[n].keys[p] = x
                                    /\ rrf_calls[n].hits[p].score > rrf_calls[n].hits[q].score

\* y leads one list alone, x leads another and is second in y's list: both
\* were returned
C9_Witness ==
    /\ rrf_calls # << >>
    /\ rrf_in0 = << <<H_a>>, <<H_b, H_a>>, << >> >>
    /\ rrf_calls[1].keys = <<RrfKey(H_a), RrfKey(H_b)>>

----------------------------------------------------------------------------
(* RAG.retrieve and _semantic_memory_retrieve                               *)

RAG_TOP_K == 5

RAG_K_RRF == 60

\* rag.py 133-149, RAG._ensure_bm25: the build whose docs.pkl the instance
\* holds as its BM25 corpus after the call; docs.pkl is read at the first
\* call that finds it, and kept
Bm25After(bm25, disk) == IF bm25 # 0 THEN bm25 ELSE disk

\* rank_bm25 is outside the repository: the BM25 score of a chunk is
\* modelled by the number of query tokens among the tokens of its text
Bm25Scores(docs, query) ==
    [i \in 1..Len(docs) |->
        Cardinality(Range(Split(query)) \cap Range(Split(docs[i].text)))]

\* whether RAG.retrieve lets a chunk id through: allowed is the set of
\* mem_item ids read at rag.py 165-177, None without a user_id or when the
\* read fails
IdAllowed(allowed, id) == allowed = << >> \/ id \in allowed[1]

\* rag.py 204-211: the hit appended for a chunk that BM25 ranks
Bm25Hit(doc, score) ==
    [id |-> Some(doc.id), path |-> None, text |-> Some(doc.text), score |-> score,
     rank |-> None, ce_score |-> None]

\* rag.py 199-211: the chunks of the corpus, best BM25 score first
Bm25Hits(docs, scores) ==
    LET idxs == ArgSortDesc(scores, {}, Min2(Len(docs), RAG_TOP_K * 12))
    IN  [r \in 1..Len(idxs) |-> Bm25Hit(docs[idxs[r] + 1], scores[idxs[r] + 1])]

\* rag.py 202-203: the hits whose id is let through
AllowedHits(hits, allowed) == SelectSeq(hits, LAMBDA h : IdAllowed(allowed, h.id[1]))

KeywordHitsDocs(docs, query, allowed) ==
    AllowedHits(Bm25Hits(docs, Bm25Scores(docs, query)), allowed)

\* rag.py 180-213: keyword_hits.  chunks_fts is created nowhere in the
\* repository, so the query at 185 raises and leaves the list empty; the
\* BM25 hits follow, best first, path None
KeywordHits_(bm25, query, allowed) == KeywordHitsDocs(Docs(bm25), query, allowed)

\* a hit of Retriever.search as a dict
DenseDict(h) ==
    [id |-> Some(h.id), path |-> Some(h.path), text |-> Some(h.text), score |-> h.score,
     rank |-> Some(h.rank), ce_score |-> None]

DenseDictsOf(hits) == [r \in 1..Len(hits) |-> DenseDict(hits[r])]

\* rag.py 162: dense_hits = self.retriever.search(qv[0], top_k=top_k * 6)
DenseDicts(build, query) == DenseDictsOf(RetrieverSearch(build, query, RAG_TOP_K * 6))

\* 1.0 / (k_rrf + rank) in units of 1/(61 * 62 * 63 * 64 * 65): the corpora
\* of the model rank at most five chunks
RagTerm(rank) == RrfDenUpTo(RAG_K_RRF, 5) \div (RAG_K_RRF + rank)

\* rag.py 221-223, 229-231: h.get("id") or h.get("path"), else tag::rank
RagKey(h, tag, rank) ==
    IF Truthy(h.id) THEN h.id[1]
    ELSE IF Truthy(h.path) THEN h.path[1]
    ELSE tag \o <<":", ":">> \o IntStr(rank)

\* rag.py 224, 232: rrf.get(key, {**h, "score": 0.0})
RagPrev(table, pos, h) == IF pos = 0 THEN [h EXCEPT !.score = 0] ELSE table[pos].rec

\* rag.py 225, 233: prev["score"] += 1.0 / (k_rrf + rank)
RagScored(prev, rank) == [prev EXCEPT !.score = prev.score + RagTerm(rank)]

\* rag.py 234-235: the keyword loop prefers the longer text
RagLongerText(prev, h, keyword) ==
    IF keyword /\ Len(OrEmpty(h.text)) > Len(OrEmpty(prev.text))
    THEN [prev EXCEPT !.text = h.text] ELSE prev

\* rag.py 236: and a path that is set
RagSetPath(prev, h, keyword) ==
    IF keyword /\ Truthy(h.path) THEN [prev EXCEPT !.path = h.path] ELSE prev

\* rag.py 226, 237: rrf[key] = prev
RagPut(table, pos, key, rec) ==
    IF pos = 0 THEN Append(table, [key |-> key, rec |-> rec])
    ELSE [table EXCEPT ![pos] = [key |-> key, rec |-> rec]]

RagTableKeys(table) == [p \in 1..Len(table) |-> table[p].key]

RagStepAt(table, h, rank, key, pos, keyword) ==
    RagPut(table, pos, key,
           RagSetPath(RagLongerText(RagScored(RagPrev(table, pos, h), rank), h, keyword),
                      h, keyword))

\* an iteration that skips no id
RagStepUnfiltered(table, h, rank, tag, allowed, keyword) ==
    LET key == RagKey(h, tag, rank)
    IN  RagStepAt(table, h, rank, key, KeyPos(RagTableKeys(table), key), keyword)

\* rag.py 218-226, 228-237: one iteration of a loop; the dense loop skips
\* the ids that are not allowed
RagStep(table, h, rank, tag, allowed, keyword) ==
    IF ~keyword /\ ~IdAllowed(allowed, OrEmpty(h.id)) THEN table
    ELSE LET key == RagKey(h, tag, rank)
         IN  RagStepAt(table, h, rank, key, KeyPos(RagTableKeys(table), key), keyword)

\* rag.py 217-237: the table rrf after hits[rank..] were folded in
RECURSIVE RagFold(_, _, _, _, _, _)
RagFold(table, hits, rank, tag, allowed, keyword) ==
    IF rank > Len(hits) THEN table
    ELSE RagFold(RagStep(table, hits[rank], rank, tag, allowed, keyword),
                 hits, rank + 1, tag, allowed, keyword)

RagTableRecs(table) == [p \in 1..Len(table) |-> table[p].rec]

\* rag.py 240: filtered = [h for h in merged if h["score"] > 0.01]
RagFiltered(merged) ==
    SelectSeq(merged, LAMBDA h : h.score > RrfDenUpTo(RAG_K_RRF, 5) \div 100)

\* rag.py 214-240: the dense loop, the keyword loop, the sort and the filter
RagFusedLists(dense_hits, keyword_hits, allowed) ==
    RagFiltered(SortByScoreDesc(RagTableRecs(
        RagFold(RagFold(<< >>, dense_hits, 1, <<"d", "e", "n", "s", "e">>, allowed, FALSE),
                keyword_hits, 1, <<"k", "w">>, allowed, TRUE))))

\* rag.py 160-240: the fused list, best first, scores above 0.01
RagFused(dense_build, bm25, query, allowed) ==
    RagFusedLists(DenseDicts(dense_build, query), KeywordHits_(bm25, query, allowed), allowed)

\* the characters of the model in the order of their code points
CHARS == <<" ", ".", "0", "1", "2", "3", "4", "5", "6", "7", "8", "9", ":", "A", "C", "H", "N", "T", "[", "]", "_", "a", "b", "c", "d", "e", "f", "g", "h", "i", "j", "k", "l", "m", "n", "o", "p", "q", "r", "s", "t", "u", "v", "w", "x", "y", "z">>

CharCode(c) == CHOOSE i \in 1..Len(CHARS) : CHARS[i] = c

\* a < b for Python strings
RECURSIVE StrLess(_, _)
StrLess(a, b) ==
    IF b = << >> THEN FALSE
    ELSE IF a = << >> THEN TRUE
    ELSE IF a[1] = b[1] THEN StrLess(Tail(a), Tail(b))
    ELSE CharCode(a[1]) < CharCode(b[1])

\* the cross-encoder is outside the repository: a loaded model scores a
\* pair by the length of the passage, "long" upwards and "short" downwards
CeScore(reranker, query, text) == IF reranker = "long" THEN Len(text) ELSE 0 - Len(text)

\* rag.py 257: the sort key (-ce_score, path or "", id or "") of x is below that of y
CeBefore(x, y) ==
    \/ x.ce_score[1] > y.ce_score[1]
    \/ /\ x.ce_score[1] = y.ce_score[1]
       /\ \/ StrLess(OrEmpty(x.path), OrEmpty(y.path))
          \/ /\ OrEmpty(x.path) = OrEmpty(y.path)
             /\ StrLess(OrEmpty(x.id), OrEmpty(y.id))

\* cand.sort(key=...): stable, smallest key first
RECURSIVE SortByCe(_)
SortByCe(cand) ==
    IF cand = << >> THEN << >>
    ELSE LET best == CHOOSE i \in 1..Len(cand) :
                        \A j \in 1..Len(cand) :
                            j # i => (CeBefore(cand[i], cand[j])
                                      \/ (~CeBefore(cand[j], cand[i]) /\ i < j))
         IN  <<cand[best]>> \o
             SortByCe(SubSeq(cand, 1, best - 1) \o SubSeq(cand, best + 1, Len(cand)))

\* a rerank that runs whatever the length of the query
RerankRunsAlways(reranker, query, filtered) ==
    reranker \in {"long", "short"} /\ filtered # << >>

\* rag.py 243-247: the cross-encoder is loaded, there are candidates, the
\* query has more than 3 tokens, and predict returns
RerankRuns(reranker, query, filtered) ==
    reranker \in {"long", "short"} /\ filtered # << >> /\ ~(Len(Split(query)) <= 3)

\* rag.py 250-255: every candidate with its ce_score
CeScored(cand, reranker, query) ==
    [i \in 1..Len(cand) |->
        [cand[i] EXCEPT !.ce_score = Some(CeScore(reranker, query, OrEmpty(cand[i].text)))]]

\* rag.py 242-265: the rerank of the first top_k * 12 candidates, or the
\* fused order when the rerank does not run
RagReranked(filtered, query, reranker) ==
    IF RerankRuns(reranker, query, filtered)
    THEN FirstN(SortByCe(CeScored(FirstN(filtered, Min2(Len(filtered), RAG_TOP_K * 12)),
                                  reranker, query)), RAG_TOP_K)
    ELSE FirstN(filtered, RAG_TOP_K)

\* rag.py 160-265, RAG.retrieve(query, user_id): dense_build is the build of
\* the Retriever, bm25 the build of the BM25 corpus after _ensure_bm25, and
\* reranker one of "none" (the model did not load), "raises" (predict
\* raises), "long", "short"
RagRetrieveWith(dense_build, bm25, query, allowed, reranker) ==
    RagReranked(RagFused(dense_build, bm25, query, allowed), query, reranker)

LEGACY_ == <<"l", "e", "g", "a", "c", "y", "_">>

MEMORY_ == <<"m", "e", "m", "o", "r", "y", "_">>

\* str.strip() leaves nothing
IsBlank(s) == \A i \in 1..Len(s) : s[i] = " "

\* a score as a whole number of sixtieths, so that the 0.7 of a legacy hit
\* and the n / m of a structured hit are compared exactly for m up to 6
ScoreOf(n, m) == (60 * n) \div m

STRUCTURED_ == <<"s", "t", "r", "u", "c", "t", "u", "r", "e", "d", "_">>

TITLE_ == <<"T", "i", "t", "l", "e", ":", " ">>

CONTENT_ == <<"C", "o", "n", "t", "e", "n", "t", ":", " ">>

\* lines 573-582: the hits of the memories table, each with score 0.7
LegacyResults(legacy) ==
    [i \in 1..Len(legacy) |->
        [id    |-> LEGACY_ \o IntStr(legacy[i].id),
         text  |-> legacy[i].content,
         path  |-> MEMORY_ \o legacy[i].type,
         score |-> ScoreOf(7, 10),
         rank  |-> i]]

\* lines 592-601: len(query_words & words) of the body or of the title,
\* whichever is larger
WordOverlap(query_lower, mem) ==
    Max2(Cardinality(Range(Split(query_lower)) \cap Range(Split(Lower(OrEmpty(mem.body))))),
         Cardinality(Range(Split(query_lower)) \cap Range(Split(Lower(OrEmpty(mem.title))))))

\* line 594: max(len(query_words), 1)
QueryWordCount(query_lower) == Max2(Cardinality(Range(Split(query_lower))), 1)

\* lines 603-610: combined_score > 0.1, and the content is not empty
StructuredKept(query_lower, mem) ==
    /\ 10 * WordOverlap(query_lower, mem) > QueryWordCount(query_lower)
    /\ Truthy(mem.title) \/ Truthy(mem.body)

\* lines 604-608: "Title: ...\n" and "Content: ..." of the first 500 characters
StructuredContent(mem) ==
    (IF Truthy(mem.title) THEN TITLE_ \o mem.title[1] \o <<NL>> ELSE << >>)
    \o (IF Truthy(mem.body) THEN CONTENT_ \o FirstN(mem.body[1], 500) ELSE << >>)

\* lines 612-618: the hits of the mem_item rows kept, ranked after the
\* results that are there already
StructuredResults(kept, query_lower, before) ==
    [i \in 1..Len(kept) |->
        [id    |-> STRUCTURED_ \o kept[i].id,
         text  |-> StructuredContent(kept[i]),
         path  |-> MEMORY_ \o kept[i].kind,
         score |-> ScoreOf(WordOverlap(query_lower, kept[i]), QueryWordCount(query_lower)),
         rank  |-> before + i]]

\* lines 584-618: the mem_item rows of list_mem_items that score
StructuredOf(items, user_id, query_lower, limit, before) ==
    StructuredResults(SelectSeq(ListMemItems(items, user_id, limit \div 2),
                                LAMBDA mem : StructuredKept(query_lower, mem)),
                      query_lower, before)

\* lines 573-626: both tables, sorted by score, the first limit of them
MemoryResults(legacy, items, user_id, query_lower, limit) ==
    FirstN(SortByScoreDesc(LegacyResults(legacy)
                           \o StructuredOf(items, user_id, query_lower, limit, Len(legacy))),
           limit)

\* app.py 558-631, _semantic_memory_retrieve(user_id, query, limit) over the
\* memories table db and the mem_item table items
SemanticMemoryRetrieve(db, items, user_id, query, limit) ==
    IF IsBlank(query) THEN << >>
    ELSE MemoryResults(SearchMemories(db, user_id, query, limit \div 2), items, user_id,
                       Strip(Lower(query)), limit)

----------------------------------------------------------------------------
(* The context builders: _build_context_bundle and                          *)
(* ContextManager._build_context_async                                      *)

\* sep.join(parts)
RECURSIVE Join(_, _)
Join(parts, sep) ==
    IF parts = << >> THEN << >>
    ELSE IF Len(parts) = 1 THEN parts[1]
    ELSE parts[1] \o sep \o Join(Tail(parts), sep)

\* s.split("::", 1)[0]
RECURSIVE BeforeColons(_)
BeforeColons(s) ==
    IF s = << >> THEN << >>
    ELSE IF Len(s) >= 2 /\ s[1] = ":" /\ s[2] = ":" THEN << >>
    ELSE <<s[1]>> \o BeforeColons(Tail(s))

\* a hit as the dict _rrf_merge reads with .get()
AsDict(h) == [id |-> Some(h.id), path |-> Some(h.path), text |-> Some(h.text),
              score |-> h.score, rank |-> Some(h.rank), ce_score |-> None]

AsDicts(hits) == [i \in 1..Len(hits) |-> AsDict(hits[i])]

\* "\n\n".join(f"[{i+1}] {h['text']}" for i, h in enumerate(hits))
NumberedBlock(texts) ==
    Join([i \in 1..Len(texts) |-> <<"[">> \o IntStr(i) \o <<"]", " ">> \o texts[i]],
         <<NL, NL>>)

\* app.py 879-898: the file context of a session
FileContext(sessions, session_id, message) ==
    IF session_id = "" \/ session_id \notin DOMAIN sessions THEN << >>
    ELSE LET items    == FirstN(sessions[session_id].items, 3)
             words    == Split(Lower(message))
             relevant == SelectSeq(items, LAMBDA it :
                            \E i \in 1..Len(words) :
                                Len(words[i]) > 3 /\ IsSubstr(words[i], Lower(it.text)))
         IN  IF relevant = << >> THEN << >>
             ELSE <<NL, NL>> \o
                  Join([i \in 1..Len(relevant) |->
                           <<"C", "o", "n", "t", "e", "n", "t", " ", "f", "r", "o", "m", " ">> \o relevant[i].path
                           \o <<":", NL>> \o relevant[i].text],
                       <<NL, NL>>)

\* the file names of the items, each once, in item order
RECURSIVE FileNames(_, _)
FileNames(items, files) ==
    IF items = << >> THEN files
    ELSE LET fname == BeforeColons(items[1].path)
         IN  FileNames(Tail(items),
                       IF fname \in Range(files) THEN files ELSE Append(files, fname))

\* app.py 906-917 and 818-831: uploads_info
UploadsInfo(sessions, session_id) ==
    IF session_id = "" \/ session_id \notin DOMAIN sessions THEN None
    ELSE LET files == FileNames(sessions[session_id].items, << >>)
         IN  Some(<<"c", "o", "u", "n", "t", "=">> \o IntStr(Len(files)) \o <<" ", "f", "i", "l", "e", "s", ":", " ">>
                  \o Join(FirstN(files, 6), <<",", " ">>))

TextsOf(dicts) == [i \in 1..Len(dicts) |-> OrEmpty(dicts[i].text)]

\* app.py 858-927: the tuple _build_context_bundle returns.  loads tells
\* whether get_retriever_sync returns, embed_ok whether embed_fn does.
\* raised tells whether the call ends in an exception: the except at 924
\* catches every Exception of the body, so it never does
BuildContextBundle(sessions, served, bm25, db, items, user_id, message, session_id, loads, embed_ok, allowed, reranker) ==
    IF ~(loads /\ embed_ok)
    THEN [context |-> << >>, all_hits |-> << >>, dense_hits |-> << >>,
          file_context |-> << >>, uploads_info |-> None, raised |-> FALSE]
    ELSE LET dense_hits   == FirstN(RagRetrieveWith(served, bm25, message, allowed, reranker), 3)
             mem_sem_hits == IF Len(Split(message)) >= 15
                             THEN SemanticMemoryRetrieve(db, items, user_id, message, 3)
                             ELSE << >>
             eph_hits     == EphemeralRetrieve(sessions, session_id, message, 5, TRUE)
             all_hits     == RrfMerge(<<dense_hits, AsDicts(mem_sem_hits),
                                        AsDicts(eph_hits)>>, 5, K_RRF).hits
             file_context == FileContext(sessions, session_id, message)
             parts        == (IF all_hits # << >> THEN <<NumberedBlock(TextsOf(all_hits))>>
                              ELSE << >>)
                             \o (IF file_context # << >> THEN <<file_context>> ELSE << >>)
         IN  [context |-> Join(parts, <<NL, NL>>), all_hits |-> all_hits,
              dense_hits |-> dense_hits, file_context |-> file_context,
              uploads_info |-> UploadsInfo(sessions, session_id), raised |-> FALSE]

\* app.py 723-815: the tuple ContextManager._build_context_async returns
BuildContextAsync(sessions, served, bm25, db, items, user_id, message, session_id, loads, embed_ok, allowed, reranker) ==
    LET dense_hits   == IF loads /\ embed_ok
                        THEN RagRetrieveWith(served, bm25, message, allowed, reranker)
                        ELSE << >>
        mem_hits     == IF Len(Split(message)) >= 15
                        THEN SemanticMemoryRetrieve(db, items, user_id, message, 3)
                        ELSE << >>
        eph_hits     == EphemeralRetrieve(sessions, session_id, message, 5, loads /\ embed_ok)
        all_hits     == RrfMerge(<<dense_hits, AsDicts(mem_hits),
                                   AsDicts(eph_hits)>>, 5, K_RRF).hits
        file_context == FileContext(sessions, session_id, message)
        parts        == (IF all_hits # << >> THEN <<NumberedBlock(TextsOf(all_hits))>>
                         ELSE << >>)
                        \o (IF dense_hits # << >>
                            THEN <<NumberedBlock(TextsOf(dense_hits))>>
                            ELSE << >>)
                        \o (IF file_context # << >> THEN <<file_context>> ELSE << >>)
    IN  [context |-> Join(parts, <<NL, NL>>), all_hits |-> all_hits,
         dense_hits |-> dense_hits, file_context |-> file_context,
         uploads_info |-> UploadsInfo(sessions, session_id), raised |-> FALSE]

\* a call _build_context_bundle(user_id, message, session_id), as the chat
\* endpoints make it (app.py 1265, 1477)
build_context_bundle(user_id, message, session_id, embed_ok, allowed, reranker) ==
    LET loads == RetrieverLoads(rag_instance, index_build)
    IN  /\ result' = [op |-> "build_context_bundle", user_id |-> user_id,
                      message |-> message, sid |-> session_id, embed_ok |-> embed_ok,
                      reranker |-> reranker,
                      bundle |-> BuildContextBundle(
                                    EPHEMERAL_SESSIONS, InstanceAfterGet(rag_instance, index_build),
                                    Bm25After(bm25_build, index_build), mem_db, mem_item,
                                    user_id, message, session_id, loads, embed_ok, allowed,
                                    reranker)]
        /\ rag_instance' = InstanceAfterGet(rag_instance, index_build)
        /\ bm25_build' = IF loads /\ embed_ok THEN Bm25After(bm25_build, index_build)
                          ELSE bm25_build
        /\ UNCHANGED <<EPHEMERAL_SESSIONS, clock, index_build, mem_db, mem_item, added>>
        /\ UNCHANGED <<cacheVars, rrfVars, taskVars>>

\* a call ContextManager._build_context_async(user_id, message, session_id)
build_context_async(user_id, message, session_id, embed_ok, allowed, reranker) ==
    LET loads == RetrieverLoads(rag_instance, index_build)
    IN  /\ result' = [op |-> "build_context_async", user_id |-> user_id,
                      message |-> message, sid |-> session_id, embed_ok |-> embed_ok,
                      reranker |-> reranker,
                      bundle |-> BuildContextAsync(
                                    EPHEMERAL_SESSIONS, InstanceAfterGet(rag_instance, index_build),
                                    Bm25After(bm25_build, index_build), mem_db, mem_item,
                                    user_id, message, session_id, loads, embed_ok, allowed,
                                    reranker)]
        /\ rag_instance' = InstanceAfterGet(rag_instance, index_build)
        /\ bm25_build' = IF loads /\ embed_ok THEN Bm25After(bm25_build, index_build)
                          ELSE bm25_build
        /\ UNCHANGED <<EPHEMERAL_SESSIONS, clock, index_build, mem_db, mem_item, added>>
        /\ UNCHANGED <<cacheVars, rrfVars, taskVars>>

----------------------------------------------------------------------------
(* Specification of the context builders beside uploads, index builds and   *)
(* memory writes                                                            *)

\* fifteen tokens, the first of them a word of the uploads
Q_long == Q_hike \o [i \in 1..28 |-> IF i % 2 = 1 THEN " " ELSE "x"]

CtxMessages == {Q_hike, Q_long}

CtxSids == {"", "A"}

CtxAllowed == {None, Some({})}

CtxUploads == { <<File(N_a_md, <<T_hike_trail>>)>>, <<File(N_b_md, <<T_cat>>)>> }

InitCtx ==
    /\ rrf_in = << >> /\ rrf_in0 = << >> /\ rrf_calls = << >>
    /\ EPHEMERAL_SESSIONS = << >>
    /\ clock = 0
    /\ rag_instance = 0
    /\ index_build = 0
    /\ mem_db = << >>
    /\ mem_item = << >>
    /\ prompt_lru = << >>
    /\ result = [op |-> "init"]
    /\ added = {}
    /\ bm25_build = 0
    /\ add_task = << >>
    /\ reindex_pc = "idle"

NextCtx ==
    \/ \E files \in CtxUploads, ok \in BOOLEAN :
          clock < MaxClock /\ upload_files("A", files, ok)
    \/ index_build = 0 /\ ingest_main(1)
    \/ Len(mem_db) < MaxMem /\ add_memory("u1", Q_long)
    \/ \E m \in CtxMessages, sid \in CtxSids, ok \in BOOLEAN, allowed \in CtxAllowed :
          build_context_bundle("u1", m, sid, ok, allowed, "none")
    \/ \E m \in CtxMessages, sid \in CtxSids, ok \in BOOLEAN, allowed \in CtxAllowed :
          build_context_async("u1", m, sid, ok, allowed, "none")

SpecCtx == InitCtx /\ [][NextCtx]_vars

\* the identity keys of a list of hits, in order
HitKeys(dicts) == [i \in 1..Len(dicts) |-> RrfKey(dicts[i])]

\* what fusion gives when the doc source contributes an empty list: the
\* memory hits and the ephemeral hits of the call, the ephemeral source
\* on its keyword path when the retriever or the embedder is not there
FusedWithoutDocs(sessions, db, items, user_id, message, session_id, ok) ==
    RrfMerge(<< << >>,
                AsDicts(IF Len(Split(message)) >= 15
                        THEN SemanticMemoryRetrieve(db, items, user_id, message, 3) ELSE << >>),
                AsDicts(EphemeralRetrieve(sessions, session_id, message, 5, ok)) >>,
             5, K_RRF).keys

\* C10 (fusion fallback): a context builder that gets no doc hits, the
\* retriever or the embedder failing or the search finding nothing, returns
\* in all_hits the fused hits of the memory source and the ephemeral source
C10_FusionFallback ==
    (result.op \in {"build_context_bundle", "build_context_async"}
        /\ result.bundle.dense_hits = << >>) =>
            HitKeys(result.bundle.all_hits)
                = FusedWithoutDocs(EPHEMERAL_SESSIONS, mem_db, mem_item, result.user_id, result.message,
                                   result.sid,
                                   RetrieverLoads(rag_instance, index_build) /\ result.embed_ok)

----------------------------------------------------------------------------
(* POST /chat around its context builder                                    *)

\* app.py 1263-1269: the status with which chat leaves the try around
\* _build_context_bundle, 400 "Retriever not ready" when the call raised
ChatContextStatus(bundle) == IF bundle.raised THEN 400 ELSE 200

\* C11 (retrieval not ready): a context builder called while the retriever
\* cannot be loaded, for a session without uploads and a message too short
\* for the memory source, raises, and chat answers 400 "Retriever not ready"
C11_NotReadyRaises ==
    (/\ result.op \in {"build_context_bundle", "build_context_async"}
     /\ ~RetrieverLoads(rag_instance, index_build)
     /\ result.sid \notin DOMAIN EPHEMERAL_SESSIONS
     /\ Len(Split(result.message)) < 15) =>
        /\ result.bundle.raised
        /\ ChatContextStatus(result.bundle) = 400


----------------------------------------------------------------------------
(* Specification of RAG.retrieve and Retriever.search: calls on the loaded  *)
(* retriever over an index build of two, three or five chunks               *)

RagBuilds == {1, 2, 3}

\* three tokens and four tokens
Q_three == <<"c","a","t"," ","t","r","a","i","l"," ","m","a","p">>

Q_four == <<"h","i","k","e"," ","t","r","a","i","l"," ","c","a","t"," ","n","a","p">>

RagQueries == {Q_hike, Q_cat_trail, Q_three, Q_four}

RagRerankers == {"none", "raises", "long", "short"}

\* the mem_item ids of the user: no user_id, or a user without rows that
\* are also chunk ids
RagAllowed == {None, Some({})}

SearchTopK == {1, 3, 5, 30}

\* what a call of RAG.retrieve met and returned
RagCall(served, bm25, query, allowed, reranker, fused) ==
    [op |-> "rag_retrieve", query |-> query, allowed |-> allowed, reranker |-> reranker,
     dense |-> DenseDicts(served, query),
     lexical |-> KeywordHits_(bm25, query, None),
     fused |-> fused,
     hits |-> RagReranked(fused, query, reranker)]

\* a call RetrieverManager.get_retriever_sync().retrieve(query, user_id)
rag_retrieve(query, allowed, reranker) ==
    /\ RetrieverLoads(rag_instance, index_build)
    /\ result' = RagCall(InstanceAfterGet(rag_instance, index_build),
                         Bm25After(bm25_build, index_build), query, allowed, reranker,
                         RagFused(InstanceAfterGet(rag_instance, index_build),
                                  Bm25After(bm25_build, index_build), query, allowed))
    /\ rag_instance' = InstanceAfterGet(rag_instance, index_build)
    /\ bm25_build' = Bm25After(bm25_build, index_build)
    /\ UNCHANGED <<EPHEMERAL_SESSIONS, clock, index_build, mem_db, mem_item, added>>
    /\ UNCHANGED <<cacheVars, rrfVars, taskVars>>

\* a call get_retriever_sync().retriever.store.search(embed(query), top_k)
retriever_search(query, top_k) ==
    /\ RetrieverLoads(rag_instance, index_build)
    /\ result' = [op |-> "search", query |-> query, top_k |-> top_k,
                  corpus |-> Len(Docs(InstanceAfterGet(rag_instance, index_build))),
                  hits |-> RetrieverSearch(InstanceAfterGet(rag_instance, index_build),
                                           query, top_k)]
    /\ rag_instance' = InstanceAfterGet(rag_instance, index_build)
    /\ UNCHANGED <<EPHEMERAL_SESSIONS, clock, index_build, mem_db, mem_item, added>>
    /\ UNCHANGED <<cacheVars, rrfVars, ragVars, taskVars>>

InitRag ==
    /\ rrf_in = << >> /\ rrf_in0 = << >> /\ rrf_calls = << >>
    /\ EPHEMERAL_SESSIONS = << >>
    /\ clock = 0
    /\ rag_instance = 0
    /\ index_build = 0
    /\ mem_db = << >>
    /\ mem_item = << >>
    /\ prompt_lru = << >>
    /\ result = [op |-> "init"]
    /\ added = {}
    /\ bm25_build = 0
    /\ add_task = << >>
    /\ reindex_pc = "idle"

NextRag ==
    \/ \E b \in RagBuilds : index_build = 0 /\ ingest_main(b)
    \/ \E q \in RagQueries, allowed \in RagAllowed, reranker \in RagRerankers :
          rag_retrieve(q, allowed, reranker)
    \/ \E q \in RagQueries, k \in SearchTopK : retriever_search(q, k)

SpecRag == InitRag /\ [][NextRag]_vars

\* the ids of the chunks in a list of hits
ChunkIds(hits) == {hits[i].id : i \in 1..Len(hits)}

\* C12 (top-k contract): RAG.retrieve returns at most top_k hits, and fewer
\* only when the dense and the lexical candidates together hold fewer than
\* top_k distinct chunks; Retriever.search returns min(top_k, corpus size) hits
C12_TopK ==
    /\ result.op = "rag_retrieve" =>
          /\ Len(result.hits) <= RAG_TOP_K
          /\ Len(result.hits) < RAG_TOP_K =>
                Cardinality(ChunkIds(result.dense) \cup ChunkIds(result.lexical)) < RAG_TOP_K
    /\ result.op = "search" => Len(result.hits) = Min2(result.top_k, result.corpus)


\* C13 (rerank skipped): when the query has 3 or fewer tokens, or the
\* cross-encoder did not load or its predict raised, RAG.retrieve returns
\* the first top_k hits of the fused order and no hit carries a ce_score
C13_RerankSkipped ==
    (/\ result.op = "rag_retrieve"
     /\ \/ Len(Split(result.query)) <= 3
        \/ result.reranker \in {"none", "raises"}) =>
        /\ result.hits = FirstN(result.fused, RAG_TOP_K)
        /\ \A i \in 1..Len(result.hits) : result.hits[i].ce_score = None

\* a query of three tokens met a loaded cross-encoder whose order of the
\* fused hits is another one
C13_Witness ==
    /\ result.op = "rag_retrieve"
    /\ Len(Split(result.query)) = 3
    /\ result.reranker = "short"
    /\ Len(result.hits) >= 2
    /\ FirstN(SortByCe(CeScored(result.fused, "short", result.query)), RAG_TOP_K)
          # CeScored(result.hits, "short", result.query)


----------------------------------------------------------------------------
(* _expand_queries (app.py 634-667)                                         *)

IsWordAt(s, i) == i \in 1..Len(s) /\ s[i] \in WORD_CHARS

\* \b between s[i - 1] and s[i]
WordBoundary(s, i) == IsWordAt(s, i - 1) # IsWordAt(s, i)

\* an alternative of a pattern, from its j-th element on, matches s from
\* position i on and ends at a \b; the element "\\s*" is a run of whitespace
RECURSIVE MatchHere(_, _, _, _)
MatchHere(alt, j, s, i) ==
    IF j > Len(alt) THEN WordBoundary(s, i)
    ELSE IF alt[j] = "\\s*"
         THEN \/ MatchHere(alt, j + 1, s, i)
              \/ i <= Len(s) /\ s[i] \in WHITESPACE /\ MatchHere(alt, j, s, i + 1)
         ELSE i <= Len(s) /\ s[i] = alt[j] /\ MatchHere(alt, j + 1, s, i + 1)

\* re.search(r"\b(a1|a2|...)\b", s) is not None
ReSearch(alts, s) ==
    \E a \in 1..Len(alts) : \E i \in 1..(Len(s) + 1) :
        WordBoundary(s, i) /\ MatchHere(alts[a], 1, s, i)

\* line 641; x? and (?:a|b) are written out as alternatives
WORK_RE ==
    << <<"w", "o", "r", "k", "\\s*", "e", "x">>,
       <<"w", "o", "r", "k", " ", "e", "x", "p", "e", "r", "i", "e", "n", "c", "e">>,
       <<"j", "o", "b", " ", "h", "i", "s", "t", "o", "r", "y">>,
       <<"e", "m", "p", "l", "o", "y", "m", "e", "n", "t", " ", "h", "i", "s", "t", "o", "r", "y">>,
       <<"c", "a", "r", "e", "e", "r">>,
       <<"r", "e", "s", "u", "m", "e">> >>

\* line 651
PEEVE_RE ==
    << <<"p", "e", "t", " ", "p", "e", "e", "v", "e">>,
       <<"a", "n", "n", "o", "y", "a", "n", "c", "e">>,
       <<"a", "n", "n", "o", "y", "a", "n", "c", "e", "s">>,
       <<"i", "r", "r", "i", "t", "a", "t", "i", "o", "n">>,
       <<"i", "r", "r", "i", "t", "a", "t", "i", "o", "n", "s">>,
       <<"t", "h", "i", "n", "g", "s", " ", "t", "h", "a", "t", " ", "b", "o", "t", "h", "e", "r", " ", "m", "e">>,
       <<"t", "h", "i", "n", "g", "s", " ", "t", "h", "a", "t", " ", "b", "o", "t", "h", "e", "r", " ", "y", "o", "u">> >>

\* line 660
PREF_RE ==
    << <<"p", "r", "e", "f", "e", "r", "e", "n", "c", "e">>,
       <<"p", "r", "e", "f", "e", "r", "e", "n", "c", "e", "s">>,
       <<"l", "i", "k", "e">>,
       <<"l", "i", "k", "e", "s">>,
       <<"d", "i", "s", "l", "i", "k", "e">>,
       <<"d", "i", "s", "l", "i", "k", "e", "s">>,
       <<"b", "i", "o">>,
       <<"a", "b", "o", "u", "t", " ", "m", "e">>,
       <<"a", "b", "o", "u", "t", " ", "y", "o", "u">> >>

\* lines 642-649
WORK_PHRASES ==
    << <<"w", "o", "r", "k", " ", "e", "x", "p", "e", "r", "i", "e", "n", "c", "e">>,
       <<"e", "m", "p", "l", "o", "y", "m", "e", "n", "t", " ", "h", "i", "s", "t", "o", "r", "y">>,
       <<"c", "a", "r", "e", "e", "r", " ", "h", "i", "s", "t", "o", "r", "y">>,
       <<"j", "o", "b", " ", "r", "o", "l", "e", "s">>,
       <<"p", "a", "s", "t", " ", "c", "o", "m", "p", "a", "n", "i", "e", "s">>,
       <<"p", "r", "o", "f", "e", "s", "s", "i", "o", "n", "a", "l", " ", "e", "x", "p", "e", "r", "i", "e", "n", "c", "e">> >>

\* lines 652-658
PEEVE_PHRASES ==
    << <<"p", "e", "t", " ", "p", "e", "e", "v", "e", "s">>,
       <<"b", "i", "g", "g", "e", "s", "t", " ", "a", "n", "n", "o", "y", "a", "n", "c", "e">>,
       <<"t", "h", "i", "n", "g", "s", " ", "I", " ", "d", "i", "s", "l", "i", "k", "e">>,
       <<"t", "h", "i", "n", "g", "s", " ", "t", "h", "a", "t", " ", "b", "o", "t", "h", "e", "r", " ", "m", "e">>,
       <<"w", "h", "a", "t", " ", "i", "r", "r", "i", "t", "a", "t", "e", "s", " ", "m", "e">> >>

\* lines 661-666
PREF_PHRASES ==
    << <<"p", "e", "r", "s", "o", "n", "a", "l", " ", "p", "r", "e", "f", "e", "r", "e", "n", "c", "e", "s">>,
       <<"l", "i", "k", "e", "s", " ", "a", "n", "d", " ", "d", "i", "s", "l", "i", "k", "e", "s">>,
       <<"a", "b", "o", "u", "t", " ", "m", "e">>,
       <<"b", "i", "o", "g", "r", "a", "p", "h", "y">> >>

\* a list that takes every item, also one it holds
ListExtend(variants, items) == variants \o items

\* set.update(items): the variants in the order they came in, each once.
\* list(variants) at line 667 has them in an order the claim does not fix
RECURSIVE SetUpdate(_, _)
SetUpdate(variants, items) ==
    IF items = << >> THEN variants
    ELSE SetUpdate(IF items[1] \in Range(variants) THEN variants
                   ELSE Append(variants, items[1]),
                   Tail(items))

UpdateIf(variants, matches, items) ==
    IF matches THEN SetUpdate(variants, items) ELSE variants

ExpandBase(base, lower) ==
    UpdateIf(UpdateIf(UpdateIf(<<base>>, ReSearch(WORK_RE, lower), WORK_PHRASES),
                      ReSearch(PEEVE_RE, lower), PEEVE_PHRASES),
             ReSearch(PREF_RE, lower), PREF_PHRASES)

ExpandStripped(base) == IF base = << >> THEN << >> ELSE ExpandBase(base, Lower(base))

\* _expand_queries(q)
ExpandQueries(q) == ExpandStripped(Strip(q))

----------------------------------------------------------------------------
(* Specification of _expand_queries: a query of two words, padded or not,   *)
(* is expanded                                                              *)

ExpandWords ==
    { << >>,
      <<"w", "o", "r", "k">>,
      <<"e", "x">>,
      <<"w", "o", "r", "k", "e", "x">>,
      <<"r", "e", "s", "u", "m", "e">>,
      <<"r", "e", "s", "u", "m", "e", "s">>,
      <<"c", "a", "r", "e", "e", "r">>,
      <<"j", "o", "b", " ", "H", "i", "s", "T", "o", "r", "y">>,
      <<"p", "e", "t", " ", "p", "e", "e", "v", "e">>,
      <<"a", "n", "n", "o", "y", "a", "n", "c", "e", "s">>,
      <<"i", "r", "r", "i", "t", "a", "t", "i", "o", "n">>,
      <<"l", "i", "k", "e", "s">>,
      <<"d", "i", "s", "l", "i", "k", "e">>,
      <<"b", "i", "o">>,
      <<"b", "i", "o", "g", "r", "a", "p", "h", "y">>,
      <<"a", "b", "o", "u", "t", " ", "m", "e">>,
      <<"a", "b", "o", "u", "t", " ", "y", "o", "u">>,
      <<"t", "h", "i", "n", "g", "s", " ", "t", "h", "a", "t", " ", "b", "o", "t", "h", "e", "r", " ", "y", "o", "u">>,
      <<"p", "r", "e", "f", "e", "r", "e", "n", "c", "e">>,
      <<"m", "y">>,
      <<"w", "o", "r", "k", " ", "e", "x", "p", "e", "r", "i", "e", "n", "c", "e">>,
      <<"w", "h", "a", "t", "'", "s", " ", "m", "y", " ", "w", "o", "r", "k", " ", "e", "x", "p", "e", "r", "i", "e", "n", "c", "e">> }

Q_example == <<"w", "h", "a", "t", "'", "s", " ", "m", "y", " ", "w", "o", "r", "k", " ", "e", "x", "p", "e", "r", "i", "e", "n", "c", "e">>

ExpandSeps == {<< >>, <<" ">>, <<" ", " ">>}

ExpandPadLeft == {<< >>, <<" ">>}

ExpandPadRight == {<< >>, <<"\n">>}

InitExpand ==
    /\ \E w1 \in ExpandWords, w2 \in ExpandWords, sep \in ExpandSeps,
          l \in ExpandPadLeft, r \in ExpandPadRight :
          result = [op |-> "query", q |-> l \o w1 \o sep \o w2 \o r]
    /\ rrf_in = << >> /\ rrf_in0 = << >> /\ rrf_calls = << >>
    /\ EPHEMERAL_SESSIONS = << >>
    /\ clock = 0
    /\ rag_instance = 0
    /\ index_build = 0
    /\ mem_db = << >>
    /\ mem_item = << >>
    /\ prompt_lru = << >>
    /\ added = {}
    /\ bm25_build = 0
    /\ add_task = << >>
    /\ reindex_pc = "idle"

\* a call _expand_queries(q)
expand_queries ==
    /\ result.op = "query"
    /\ result' = [op |-> "expand", q |-> result.q, variants |-> ExpandQueries(result.q)]
    /\ UNCHANGED <<EPHEMERAL_SESSIONS, clock, rag_instance, index_build, mem_db, mem_item, added>>
    /\ UNCHANGED <<cacheVars, rrfVars, ragVars, taskVars>>

NextExpand == expand_queries

SpecExpand == InitExpand /\ [][NextExpand]_vars

\* w stands in s as whole words
WholeWords(w, s) ==
    \E i \in 1..(Len(s) - Len(w) + 1) :
        /\ SubSeq(s, i, i + Len(w) - 1) = w
        /\ WordBoundary(s, i)
        /\ WordBoundary(s, i + Len(w))

\* the cues of the work cluster as the queries of the model can spell them
WorkCues ==
    { <<"w", "o", "r", "k", "e", "x">>,
      <<"w", "o", "r", "k", " ", "e", "x">>,
      <<"w", "o", "r", "k", " ", " ", "e", "x">>,
      <<"w", "o", "r", "k", " ", "e", "x", "p", "e", "r", "i", "e", "n", "c", "e">>,
      <<"j", "o", "b", " ", "h", "i", "s", "t", "o", "r", "y">>,
      <<"e", "m", "p", "l", "o", "y", "m", "e", "n", "t", " ", "h", "i", "s", "t", "o", "r", "y">>,
      <<"c", "a", "r", "e", "e", "r">>,
      <<"r", "e", "s", "u", "m", "e">> }

PeeveCues ==
    { <<"p", "e", "t", " ", "p", "e", "e", "v", "e">>,
      <<"a", "n", "n", "o", "y", "a", "n", "c", "e">>,
      <<"a", "n", "n", "o", "y", "a", "n", "c", "e", "s">>,
      <<"i", "r", "r", "i", "t", "a", "t", "i", "o", "n">>,
      <<"i", "r", "r", "i", "t", "a", "t", "i", "o", "n", "s">>,
      <<"t", "h", "i", "n", "g", "s", " ", "t", "h", "a", "t", " ", "b", "o", "t", "h", "e", "r", " ", "m", "e">>,
      <<"t", "h", "i", "n", "g", "s", " ", "t", "h", "a", "t", " ", "b", "o", "t", "h", "e", "r", " ", "y", "o", "u">> }

PrefCues ==
    { <<"p", "r", "e", "f", "e", "r", "e", "n", "c", "e">>,
      <<"p", "r", "e", "f", "e", "r", "e", "n", "c", "e", "s">>,
      <<"l", "i", "k", "e">>,
      <<"l", "i", "k", "e", "s">>,
      <<"d", "i", "s", "l", "i", "k", "e">>,
      <<"d", "i", "s", "l", "i", "k", "e", "s">>,
      <<"b", "i", "o">>,
      <<"a", "b", "o", "u", "t", " ", "m", "e">>,
      <<"a", "b", "o", "u", "t", " ", "y", "o", "u">> }

\* the phrases of the clusters of which a cue stands in the lowered query
CluePhrases(lower) ==
    (IF \E c \in WorkCues : WholeWords(c, lower) THEN Range(WORK_PHRASES) ELSE {})
    \cup (IF \E c \in PeeveCues : WholeWords(c, lower) THEN Range(PEEVE_PHRASES) ELSE {})
    \cup (IF \E c \in PrefCues : WholeWords(c, lower) THEN Range(PREF_PHRASES) ELSE {})

\* C14 as stated (query expansion): the variants contain the original query,
\* are the original alone when no cluster matches, and else the original
\* plus the phrases of every matching cluster, each once
C14_ContainsOriginal ==
    result.op = "expand" =>
        /\ result.q \in Range(result.variants)
        /\ Range(result.variants) = {result.q} \cup CluePhrases(Lower(result.q))
        /\ Len(result.variants) = Cardinality(Range(result.variants))

\* C14 amended: a query that is blank has no variants; any other query has
\* itself, stripped of the whitespace around it, and the phrases of every
\* cluster of which a cue stands in it, each once; "what's my work
\* experience" has itself and the six phrases of the work cluster
C14_Expansion ==
    result.op = "expand" =>
        LET base == Strip(result.q)
        IN  /\ base = << >> => result.variants = << >>
            /\ base # << >> =>
                  /\ base \in Range(result.variants)
                  /\ Range(result.variants) = {base} \cup CluePhrases(Lower(base))
                  /\ Len(result.variants) = Cardinality(Range(result.variants))
            /\ result.q = Q_example =>
                  Range(result.variants) =
                      {Q_example,
                       <<"w", "o", "r", "k", " ", "e", "x", "p", "e", "r", "i", "e", "n", "c", "e">>,
                       <<"e", "m", "p", "l", "o", "y", "m", "e", "n", "t", " ", "h", "i", "s", "t", "o", "r", "y">>,
                       <<"c", "a", "r", "e", "e", "r", " ", "h", "i", "s", "t", "o", "r", "y">>,
                       <<"j", "o", "b", " ", "r", "o", "l", "e", "s">>,
                       <<"p", "a", "s", "t", " ", "c", "o", "m", "p", "a", "n", "i", "e", "s">>,
                       <<"p", "r", "o", "f", "e", "s", "s", "i", "o", "n", "a", "l", " ", "e", "x", "p", "e", "r", "i", "e", "n", "c", "e">>}

\* the example was expanded: the query and six phrases
C14_Witness ==
    /\ result.op = "expand"
    /\ result.q = Q_example
    /\ Len(result.variants) = 7


----------------------------------------------------------------------------
(* The session endpoints and the life of an ephemeral session               *)

\* app.py 163-167, _clear_ephemeral_context(session_id)
ClearEphemeralContext(sessions, sid) ==
    [s \in DOMAIN sessions \ {sid} |-> sessions[s]]

\* line 1972: f"session_{int(time.time())}" when no session_id was given
SessionIdOr(sid, now) ==
    IF sid = "" THEN <<"s", "e", "s", "s", "i", "o", "n", "_">> \o IntStr(now) ELSE sid

\* what a del EPHEMERAL_SESSIONS[sid] on another thread means to the add in
\* progress: the dict the add holds as store is no longer the one the map
\* holds, and the clear is noted in the history of the add
TaskAfterClear(task, sid) ==
    IF task = << >> THEN task
    ELSE <<[task[1] EXCEPT
              !.attached = task[1].attached /\ task[1].sid # sid,
              !.cleared = Append(task[1].cleared, sid)]>>

\* POST /api/sessions.  redis is "ok", "down" (RedisOps() raises, line
\* 1969) or "write" (a later Redis call raises, lines 1986-1991)
create_session(session_id, redis) ==
    /\ EPHEMERAL_SESSIONS' =
          IF redis = "down" THEN EPHEMERAL_SESSIONS
          ELSE ClearEphemeralContext(EPHEMERAL_SESSIONS, SessionIdOr(session_id, clock))
    /\ result' = [op |-> "create_session", sid |-> SessionIdOr(session_id, clock),
                  status |-> IF redis = "ok" THEN 200 ELSE 500]
    /\ add_task' = IF redis = "down" THEN add_task
                   ELSE TaskAfterClear(add_task, SessionIdOr(session_id, clock))
    /\ UNCHANGED <<clock, rag_instance, index_build, mem_db, mem_item, added, reindex_pc>>
    /\ UNCHANGED <<cacheVars, rrfVars, ragVars>>

\* DELETE /api/sessions/{session_id}: Redis keys only (lines 2002-2014)
delete_session(session_id, redis) ==
    /\ result' = [op |-> "delete_session", sid |-> session_id,
                  status |-> IF redis = "ok" THEN 200 ELSE 500]
    /\ UNCHANGED <<EPHEMERAL_SESSIONS, clock, rag_instance, index_build, mem_db, mem_item, added>>
    /\ UNCHANGED <<cacheVars, rrfVars, ragVars, taskVars>>

----------------------------------------------------------------------------
(* Specification of the life of ephemeral sessions: one-chunk uploads to    *)
(* ever new sessions until the cap evicts, beside retrievals and the        *)
(* session endpoints                                                        *)

LifeSessions == 11

LifeSids == {"s01", "s02", "s12"}

LifeQueries == {NumberedText(1), NumberedText(2)}

RedisStates == {"ok", "down", "write"}

InitLife ==
    /\ rrf_in = << >> /\ rrf_in0 = << >> /\ rrf_calls = << >>
    /\ EPHEMERAL_SESSIONS = << >>
    /\ clock = 0
    /\ rag_instance = 0
    /\ index_build \in 0..1
    /\ mem_db = << >>
    /\ mem_item = << >>
    /\ prompt_lru = << >>
    /\ result = [op |-> "init"]
    /\ added = {}
    /\ bm25_build = 0
    /\ add_task = << >>
    /\ reindex_pc = "idle"

NextLife ==
    \/ /\ Cardinality(UsedSids) < LifeSessions
       /\ upload_files(SESSION_NAMES[Cardinality(UsedSids) + 1],
                       <<FreshFile(Uploaded + 1, 1)>>, TRUE)
    \/ \E sid \in LifeSids, q \in LifeQueries, ok \in BOOLEAN :
          ephemeral_retrieve(sid, q, 5, ok)
    \/ \E sid \in {"", "s01"}, redis \in RedisStates : create_session(sid, redis)
    \/ \E redis \in RedisStates : delete_session("s01", redis)

SpecLife == InitLife /\ [][NextLife]_vars

\* C15 (absent session): a call of _ephemeral_retrieve for a session id the
\* store does not hold returns [] and leaves the store as it is
C15_AbsentSession ==
    [][(result'.op = "retrieve" /\ result'.sid \notin DOMAIN EPHEMERAL_SESSIONS) =>
          /\ result'.hits = << >>
          /\ EPHEMERAL_SESSIONS' = EPHEMERAL_SESSIONS]_vars

\* [] was returned for a session that was written and is gone, while other
\* sessions are live
C15_Witness ==
    /\ result.op = "retrieve"
    /\ result.hits = << >>
    /\ result.sid \notin DOMAIN EPHEMERAL_SESSIONS
    /\ result.sid \in UsedSids
    /\ DOMAIN EPHEMERAL_SESSIONS # {}

\* C16 (session lifecycle): after delete_session(sid) has completed, the
\* store has no entry for sid and every retrieval for sid returns []; only
\* a later add can change that
C16_DeletedIsGone ==
    (result.op = "delete_session" /\ result.status = 200) =>
        /\ result.sid \notin DOMAIN EPHEMERAL_SESSIONS
        /\ \A q \in LifeQueries, ok \in BOOLEAN :
              EphemeralRetrieve(EPHEMERAL_SESSIONS, result.sid, q, 5, ok) = << >>


\* C17 (eviction spares the target): an add to a session the store holds
\* leaves that session in the store, with its earlier items and the new
\* ones after them, also when the add runs the eviction of the cap
C17_TargetKept ==
    [][\A s \in DOMAIN EPHEMERAL_SESSIONS :
          (\E p \in added' \ added : p[1] = s) =>
              /\ s \in DOMAIN EPHEMERAL_SESSIONS'
              /\ Len(EPHEMERAL_SESSIONS'[s].items) > Len(EPHEMERAL_SESSIONS[s].items)
              /\ SubSeq(EPHEMERAL_SESSIONS'[s].items, 1, Len(EPHEMERAL_SESSIONS[s].items))
                    = EPHEMERAL_SESSIONS[s].items]_vars


\* C20 (sixty adds): after 60 one-chunk adds to one session, the session
\* stores 25 vector rows and 25 items, those of the 25 chunks added last
C20_SixtyAdds ==
    (clock = 60 /\ Uploaded = 60 /\ TrimSid \in DOMAIN EPHEMERAL_SESSIONS) =>
        LET store == EPHEMERAL_SESSIONS[TrimSid]
            half  == MAX_VECTORS_PER_SESSION \div 2
        IN  /\ VecRows(store) = half
            /\ Len(store.items) = half
            /\ \A i \in 1..half :
                  /\ store.vecs[1][i] = Embed(NumberedText(60 - half + i))
                  /\ store.items[i].text = NumberedText(60 - half + i)


----------------------------------------------------------------------------
(* Reindex: POST /admin/reindex and POST /webhook/github.  Both rebuild    *)
(* the index files with ingest_from_dir, set RetrieverManager._instance to *)
(* None and load a retriever again.  admin_reindex is a plain def, which   *)
(* the server runs on a worker thread beside the event loop, so a          *)
(* retrieval can run between any two of its lines.                         *)

\* app.py 1203-1209, 1232-1236: ingest_from_dir(...) has written the files
\* of a build.  ingest_from_dir is not among the sources: the files of the
\* new build are taken to replace those of the old one at once
reindex_ingest(build) ==
    /\ reindex_pc = "idle"
    /\ build # index_build
    /\ index_build' = build
    /\ reindex_pc' = "ingested"
    /\ result' = [op |-> "reindex", step |-> "ingest"]
    /\ UNCHANGED <<EPHEMERAL_SESSIONS, clock, rag_instance, mem_db, mem_item, added, add_task>>
    /\ UNCHANGED <<cacheVars, rrfVars, ragVars>>

\* app.py 1212, 1238: RetrieverManager.reset_retriever().  The RAG object
\* that a later load builds starts without a BM25 corpus
reindex_reset ==
    /\ reindex_pc = "ingested"
    /\ rag_instance' = 0
    /\ bm25_build' = 0
    /\ reindex_pc' = "reset"
    /\ result' = [op |-> "reindex", step |-> "reset"]
    /\ UNCHANGED <<EPHEMERAL_SESSIONS, clock, index_build, mem_db, mem_item, added, add_task>>
    /\ UNCHANGED <<cacheVars, rrfVars>>

\* app.py 1213, 1239: _ = RetrieverManager.get_retriever_sync()
reindex_reload ==
    /\ reindex_pc = "reset"
    /\ rag_instance' = InstanceAfterGet(rag_instance, index_build)
    /\ reindex_pc' = "idle"
    /\ result' = [op |-> "reindex", step |-> "reload"]
    /\ UNCHANGED <<EPHEMERAL_SESSIONS, clock, index_build, mem_db, mem_item, added, add_task>>
    /\ UNCHANGED <<cacheVars, rrfVars, ragVars>>

----------------------------------------------------------------------------
(* Specification of reindex beside retrievals: the process starts on the    *)
(* files of build 1                                                         *)

ReindexQueries == {Q_hike, Q_to}

InitReindex ==
    /\ rrf_in = << >> /\ rrf_in0 = << >> /\ rrf_calls = << >>
    /\ EPHEMERAL_SESSIONS = << >>
    /\ clock = 0
    /\ rag_instance = 0
    /\ index_build = 1
    /\ mem_db = << >>
    /\ mem_item = << >>
    /\ prompt_lru = << >>
    /\ result = [op |-> "init"]
    /\ added = {}
    /\ bm25_build = 0
    /\ add_task = << >>
    /\ reindex_pc = "idle"

NextReindex ==
    \/ \E b \in RagBuilds : reindex_ingest(b)
    \/ reindex_reset
    \/ reindex_reload
    \/ \E q \in ReindexQueries, reranker \in {"none", "long"} : rag_retrieve(q, None, reranker)
    \/ clock < MaxClock /\ upload_files("A", <<File(N_a_md, <<T_hike_trail>>)>>, TRUE)

SpecReindex == InitReindex /\ [][NextReindex]_vars

\* the chunk ids of a build
BuildIds(build) == {Some(Docs(build)[i].id) : i \in 1..Len(Docs(build))}

\* C19 (reindex under reads): a retrieval that runs beside a reindex is
\* served by a loaded retriever whose dense index, chunk metadata and BM25
\* corpus come from one build, and it returns chunks of that build only
C19_ReindexSafe ==
    result.op = "rag_retrieve" =>
        /\ rag_instance # 0
        /\ bm25_build = rag_instance
        /\ ChunkIds(result.hits) \subseteq BuildIds(rag_instance)


----------------------------------------------------------------------------
(* _ephemeral_add line by line.  upload_files is an async def whose call   *)
(* of _ephemeral_add has no await in it, so the event loop runs one add at *)
(* a time; create_session is a plain def, which the server runs on a       *)
(* worker thread, so its _clear_ephemeral_context can run between any two  *)
(* lines of an add.                                                        *)

\* lines 446-461: the retriever is loaded, the texts are embedded, and at
\* the cap the sessions are sorted by last_added_at
add_begin(session_id, twps) ==
    /\ add_task = << >>
    /\ session_id # "" /\ twps # << >>
    /\ RetrieverLoads(rag_instance, index_build)
    /\ add_task' = <<[pc |-> IF Cardinality(DOMAIN EPHEMERAL_SESSIONS) >= MAX_EPHEMERAL_SESSIONS
                             THEN "slice" ELSE "store",
                      sid |-> session_id, twps |-> twps,
                      oldest |-> SortedSids(EPHEMERAL_SESSIONS),
                      attached |-> FALSE,
                      start |-> EPHEMERAL_SESSIONS, cleared |-> << >>]>>
    /\ rag_instance' = InstanceAfterGet(rag_instance, index_build)
    /\ result' = [op |-> "add", step |-> "begin"]
    /\ UNCHANGED <<EPHEMERAL_SESSIONS, clock, index_build, mem_db, mem_item, added, reindex_pc>>
    /\ UNCHANGED <<cacheVars, rrfVars, ragVars>>

\* line 463: oldest_sessions[:len(EPHEMERAL_SESSIONS)//2], as the for
\* statement evaluates it
add_slice ==
    /\ add_task # << >> /\ add_task[1].pc = "slice"
    /\ add_task' = <<[add_task[1] EXCEPT
                        !.pc = "evict",
                        !.oldest = FirstN(add_task[1].oldest,
                                          Cardinality(DOMAIN EPHEMERAL_SESSIONS) \div 2)]>>
    /\ result' = [op |-> "add", step |-> "slice"]
    /\ UNCHANGED <<EPHEMERAL_SESSIONS, clock, rag_instance, index_build, mem_db, mem_item, added,
                   reindex_pc>>
    /\ UNCHANGED <<cacheVars, rrfVars, ragVars>>

\* lines 463-465: one turn of the loop.  del raises KeyError when the
\* session is gone, and the except at 479 takes over
add_evict ==
    /\ add_task # << >> /\ add_task[1].pc = "evict"
    /\ IF add_task[1].oldest = << >>
       THEN /\ add_task' = <<[add_task[1] EXCEPT !.pc = "store"]>>
            /\ UNCHANGED EPHEMERAL_SESSIONS
       ELSE IF add_task[1].oldest[1] \in DOMAIN EPHEMERAL_SESSIONS
       THEN /\ EPHEMERAL_SESSIONS' =
                  ClearEphemeralContext(EPHEMERAL_SESSIONS, add_task[1].oldest[1])
            /\ add_task' = <<[add_task[1] EXCEPT !.oldest = Tail(add_task[1].oldest)]>>
       ELSE /\ add_task' = <<[add_task[1] EXCEPT !.pc = "fallback"]>>
            /\ UNCHANGED EPHEMERAL_SESSIONS
    /\ result' = [op |-> "add", step |-> "evict"]
    /\ UNCHANGED <<clock, rag_instance, index_build, mem_db, mem_item, added, reindex_pc>>
    /\ UNCHANGED <<cacheVars, rrfVars, ragVars>>

\* lines 467-477: setdefault, then store["vecs"]
add_store ==
    /\ add_task # << >> /\ add_task[1].pc = "store"
    /\ LET kept == SetDefault(EPHEMERAL_SESSIONS, add_task[1].sid)
           vecs == EmbedAll(TextsOfItems(add_task[1].twps))
       IN  EPHEMERAL_SESSIONS' =
              [kept EXCEPT ![add_task[1].sid].vecs = StackVecs(kept[add_task[1].sid].vecs, vecs)]
    /\ add_task' = <<[add_task[1] EXCEPT !.pc = "items", !.attached = TRUE]>>
    /\ result' = [op |-> "add", step |-> "store"]
    /\ UNCHANGED <<clock, rag_instance, index_build, mem_db, mem_item, added, reindex_pc>>
    /\ UNCHANGED <<cacheVars, rrfVars, ragVars>>

\* lines 479-482: the except branch, setdefault alone
add_fallback ==
    /\ add_task # << >> /\ add_task[1].pc = "fallback"
    /\ EPHEMERAL_SESSIONS' = SetDefault(EPHEMERAL_SESSIONS, add_task[1].sid)
    /\ add_task' = <<[add_task[1] EXCEPT !.pc = "items", !.attached = TRUE]>>
    /\ result' = [op |-> "add", step |-> "fallback"]
    /\ UNCHANGED <<clock, rag_instance, index_build, mem_db, mem_item, added, reindex_pc>>
    /\ UNCHANGED <<cacheVars, rrfVars, ragVars>>

\* lines 484-491: items, recent and last_added_at are written to the dict
\* the add holds, which the map may no longer hold
add_finish ==
    /\ add_task # << >> /\ add_task[1].pc = "items"
    /\ EPHEMERAL_SESSIONS' =
          IF add_task[1].attached
          THEN [EPHEMERAL_SESSIONS EXCEPT ![add_task[1].sid] =
                   TrackItems(EPHEMERAL_SESSIONS[add_task[1].sid], add_task[1].twps, clock + 1)]
          ELSE EPHEMERAL_SESSIONS
    /\ clock' = clock + 1
    /\ added' = added \cup {<<add_task[1].sid, add_task[1].twps[i]>> :
                               i \in 1..Len(add_task[1].twps)}
    /\ result' = [op |-> "add_done", sid |-> add_task[1].sid, twps |-> add_task[1].twps,
                  start |-> add_task[1].start, cleared |-> add_task[1].cleared,
                  now |-> clock + 1]
    /\ add_task' = << >>
    /\ UNCHANGED <<rag_instance, index_build, mem_db, mem_item, reindex_pc>>
    /\ UNCHANGED <<cacheVars, rrfVars, ragVars>>

----------------------------------------------------------------------------
(* Specification of adds beside a session clear: one-chunk adds to ever    *)
(* new sessions and to one session written before, each add line by line,  *)
(* and create_session for that one session while an add is running         *)

ConcSessions == 11

ConcSid == "s03"

InitConc ==
    /\ rrf_in = << >> /\ rrf_in0 = << >> /\ rrf_calls = << >>
    /\ EPHEMERAL_SESSIONS = << >>
    /\ clock = 0
    /\ rag_instance = 0
    /\ index_build = 1
    /\ mem_db = << >>
    /\ mem_item = << >>
    /\ prompt_lru = << >>
    /\ result = [op |-> "init"]
    /\ added = {}
    /\ bm25_build = 0
    /\ add_task = << >>
    /\ reindex_pc = "idle"

NextConc ==
    \/ /\ Cardinality(UsedSids) < ConcSessions
       /\ add_begin(SESSION_NAMES[Cardinality(UsedSids) + 1],
                    TextsWithPaths(<<FreshFile(Uploaded + 1, 1)>>))
    \/ /\ ConcSid \in UsedSids /\ ReAdds < MaxReAdds
       /\ add_begin(ConcSid, TextsWithPaths(<<FreshFile(Uploaded + 1, 1)>>))
    \/ add_slice
    \/ add_evict
    \/ add_store
    \/ add_fallback
    \/ add_finish
    \/ /\ add_task # << >> /\ add_task[1].cleared = << >>
       /\ ConcSid \in DOMAIN EPHEMERAL_SESSIONS
       /\ create_session(ConcSid, "ok")

SpecConc == InitConc /\ [][NextConc]_vars

\* the stores that the serial orders of an add and the clears that ran
\* beside it leave
SerialStores(start, sid, twps, now, cleared) ==
    IF cleared = << >> THEN {EphemeralAddStore(start, sid, twps, TRUE, now)}
    ELSE {ClearEphemeralContext(EphemeralAddStore(start, sid, twps, TRUE, now), cleared[1]),
          EphemeralAddStore(ClearEphemeralContext(start, cleared[1]), sid, twps, TRUE, now)}

\* C18 (adds are serializable): when an add has returned, the store is the
\* one that some serial order of the add and of the session clear that ran
\* beside it leaves, and every session holds as many items as vector rows
C18_Serializable ==
    result.op = "add_done" =>
        /\ EPHEMERAL_SESSIONS \in SerialStores(result.start, result.sid, result.twps,
                                               result.now, result.cleared)
        /\ \A s \in DOMAIN EPHEMERAL_SESSIONS :
              Len(EPHEMERAL_SESSIONS[s].items) = VecRows(EPHEMERAL_SESSIONS[s])


----------------------------------------------------------------------------
(* Specification of the memory retriever: rows written to the memories     *)
(* table and to the mem_item table, and _semantic_memory_retrieve over     *)
(* both                                                                    *)

MaxMemRows == 2

T_love_hiking == <<"I", " ", "l", "o", "v", "e", " ", "h", "i", "k", "i", "n", "g">>

T_cat_nap == <<"c", "a", "t", " ", "n", "a", "p">>

Q_hiking_trails == <<"h", "i", "k", "i", "n", "g", " ", "t", "r", "a", "i", "l", "s">>

Q_hiking == <<"h", "i", "k", "i", "n", "g">>

Q_note == <<"n", "o", "t", "e">>

MemContents == {T_love_hiking, T_cat_nap}

MemQueries == {Q_hiking_trails, Q_hiking, Q_note}

MemItemIds == {<<"m", "1">>, <<"m", "2">>}

\* a call _semantic_memory_retrieve(user_id, query, limit)
semantic_memory_retrieve(user_id, query, limit) ==
    /\ result' = [op |-> "memory_retrieve", user_id |-> user_id, query |-> query,
                  limit |-> limit,
                  hits |-> SemanticMemoryRetrieve(mem_db, mem_item, user_id, query, limit)]
    /\ UNCHANGED <<EPHEMERAL_SESSIONS, clock, rag_instance, index_build, mem_db, mem_item,
                   added>>
    /\ UNCHANGED <<cacheVars, rrfVars, ragVars, taskVars>>

InitMem ==
    /\ rrf_in = << >> /\ rrf_in0 = << >> /\ rrf_calls = << >>
    /\ EPHEMERAL_SESSIONS = << >>
    /\ clock = 0
    /\ rag_instance = 0
    /\ index_build = 0
    /\ mem_db = << >>
    /\ mem_item = << >>
    /\ prompt_lru = << >>
    /\ result = [op |-> "init"]
    /\ added = {}
    /\ bm25_build = 0
    /\ add_task = << >>
    /\ reindex_pc = "idle"

NextMem ==
    \/ \E c \in MemContents : Len(mem_db) < MaxMemRows /\ add_memory("u1", c)
    \/ \E c \in MemContents, id \in MemItemIds :
          /\ Len(mem_item) < MaxMemRows
          /\ create_mem_item("u1", Q_note, None, Some(c), FALSE, id)
    \/ \E q \in MemQueries : semantic_memory_retrieve("u1", q, 5)

SpecMem == InitMem /\ [][NextMem]_vars

\* the text shares with the query a token of more than 3 characters
SharesLongToken(text, query) ==
    \E w \in WordSet(text) \cap WordSet(query) : Len(w) > 3

\* the positions in hits of the hit made from the record of this id
HitsOfRecord(hits, id) == {i \in 1..Len(hits) : hits[i].id = id}

\* the positions in hits of the hits that have no token in common with the query
HitsWithoutOverlap(hits, query) ==
    {j \in 1..Len(hits) : WordSet(hits[j].text) \cap WordSet(query) = {}}

\* C21 (memory keyword boost): a record of the user whose content shares a
\* token of more than 3 characters with the query is among the hits of the
\* memory retriever, before every hit that has no token in common with the
\* query
C21_KeywordBoost ==
    result.op = "memory_retrieve" =>
        /\ \A r \in Range(mem_db) :
              (r.user_id = result.user_id /\ SharesLongToken(r.content, result.query)) =>
                  \E i \in HitsOfRecord(result.hits, LEGACY_ \o IntStr(r.id)) :
                      \A j \in HitsWithoutOverlap(result.hits, result.query) : i < j
        /\ \A m \in Range(mem_item) :
              (m.user_id = result.user_id /\ SharesLongToken(OrEmpty(m.body), result.query)) =>
                  \E i \in HitsOfRecord(result.hits, STRUCTURED_ \o m.id) :
                      \A j \in HitsWithoutOverlap(result.hits, result.query) : i < j


----------------------------------------------------------------------------
(* The order of the sources in the final fusion                            *)

IsPrefix(p, s) == Len(p) <= Len(s) /\ SubSeq(s, 1, Len(p)) = p

\* the source a fused hit came from, by its id: 1 the ephemeral store, 2 the
\* memory retriever, 3 the document index
HitSource(h) ==
    IF IsPrefix(EPH_ID, OrEmpty(h.id)) THEN 1
    ELSE IF IsPrefix(LEGACY_, OrEmpty(h.id)) \/ IsPrefix(STRUCTURED_, OrEmpty(h.id)) THEN 2
    ELSE 3

\* C22 (fusion source order): in all_hits of a context build, of two hits
\* with equal fused score an ephemeral hit comes before a memory hit and a
\* memory hit before a doc hit
C22_SourceOrder ==
    result.op \in {"build_context_bundle", "build_context_async"} =>
        \A i, j \in 1..Len(result.bundle.all_hits) :
            (/\ i < j
             /\ result.bundle.all_hits[i].score = result.bundle.all_hits[j].score) =>
                HitSource(result.bundle.all_hits[i]) <= HitSource(result.bundle.all_hits[j])


----------------------------------------------------------------------------
(* Specification of the stages of a context build: an index, uploads to a  *)
(* session, and the context builders with a cross-encoder that loaded      *)

StageMessages == {Q_hike, Q_four}

StageRerankers == {"none", "long", "short"}

InitStages ==
    /\ rrf_in = << >> /\ rrf_in0 = << >> /\ rrf_calls = << >>
    /\ EPHEMERAL_SESSIONS = << >>
    /\ clock = 0
    /\ rag_instance = 0
    /\ index_build = 0
    /\ mem_db = << >>
    /\ mem_item = << >>
    /\ prompt_lru = << >>
    /\ result = [op |-> "init"]
    /\ added = {}
    /\ bm25_build = 0
    /\ add_task = << >>
    /\ reindex_pc = "idle"

NextStages ==
    \/ \E b \in RagBuilds : index_build = 0 /\ ingest_main(b)
    \/ \E files \in CtxUploads : clock < MaxClock /\ upload_files("A", files, TRUE)
    \/ \E m \in StageMessages, sid \in CtxSids, reranker \in StageRerankers :
          build_context_bundle("u1", m, sid, TRUE, None, reranker)
    \/ \E m \in StageMessages, sid \in CtxSids, reranker \in StageRerankers :
          build_context_async("u1", m, sid, TRUE, None, reranker)

SpecStages == InitStages /\ [][NextStages]_vars

\* C23 (stage order): in a context build the stages run in the order
\* expansion, search, fusion, rerank; so when the cross-encoder runs it acts
\* on the final fused list: every hit of all_hits has a ce_score and
\* all_hits is in the order of the rerank
C23_RerankAfterFusion ==
    (/\ result.op \in {"build_context_bundle", "build_context_async"}
     /\ RerankRuns(result.reranker, result.message, result.bundle.all_hits)) =>
        /\ \A i \in 1..Len(result.bundle.all_hits) :
              result.bundle.all_hits[i].ce_score # None
        /\ SortByCe(result.bundle.all_hits) = result.bundle.all_hits


----------------------------------------------------------------------------
(* The memory retriever in a context build                                 *)

\* C24 (memory for every query): when the retriever is loaded and the
\* embedder works, all_hits of a context build for a non-blank message is the
\* fusion of the doc hits, of the hits the memory retriever returns for the
\* message, and of the ephemeral hits, whatever the number of tokens of the
\* message
C24_MemoryAlways ==
    (/\ result.op \in {"build_context_bundle", "build_context_async"}
     /\ result.embed_ok /\ rag_instance # 0
     /\ ~IsBlank(result.message)) =>
        result.bundle.all_hits =
            RrfMerge(<<result.bundle.dense_hits,
                       AsDicts(SemanticMemoryRetrieve(mem_db, mem_item, result.user_id,
                                                      result.message, 3)),
                       AsDicts(EphemeralRetrieve(EPHEMERAL_SESSIONS, result.sid,
                                                 result.message, 5, TRUE))>>,
                     5, K_RRF).hits


----------------------------------------------------------------------------
(* Specification of the ranked lists of the retrieval sources: the          *)
(* document index, the ephemeral store by vectors and by keywords, and the  *)
(* memory retriever                                                        *)

MaxRankUploads == 1

MaxRankRows == 1

RankUploads ==
    { <<File(N_b_md, <<T_cat, Q_three>>)>>,
      <<File(N_a_md, <<T_hike_trail, T_cat>>)>> }

RankQueries == {Q_cat_trail, Q_hike}

InitRanked ==
    /\ rrf_in = << >> /\ rrf_in0 = << >> /\ rrf_calls = << >>
    /\ EPHEMERAL_SESSIONS = << >>
    /\ clock = 0
    /\ rag_instance = 0
    /\ index_build = 0
    /\ mem_db = << >>
    /\ mem_item = << >>
    /\ prompt_lru = << >>
    /\ result = [op |-> "init"]
    /\ added = {}
    /\ bm25_build = 0
    /\ add_task = << >>
    /\ reindex_pc = "idle"

NextRanked ==
    \/ \E b \in RagBuilds : index_build = 0 /\ ingest_main(b)
    \/ \E files \in RankUploads, ok \in BOOLEAN :
          clock < MaxRankUploads /\ upload_files("A", files, ok)
    \/ \E q \in RankQueries, k \in EphTopK, ok \in BOOLEAN :
          ephemeral_retrieve("A", q, k, ok)
    \/ Len(mem_db) < MaxRankRows /\ add_memory("u1", T_love_hiking)
    \/ \E c \in MemContents :
          /\ Len(mem_item) < MaxRankRows
          /\ create_mem_item("u1", Q_note, None, Some(c), FALSE, <<"m", "1">>)
    \/ \E q \in MemQueries : semantic_memory_retrieve("u1", q, 5)
    \/ \E q \in RankQueries, k \in SearchTopK : retriever_search(q, k)

SpecRanked == InitRanked /\ [][NextRanked]_vars

\* C25 (ranked lists): the list a retrieval source returns (Retriever.search,
\* _ephemeral_retrieve by vectors or by keywords, _semantic_memory_retrieve)
\* is in non-increasing order of score, and the rank of each hit is its
\* position in the list, counted from 1
C25_RankIsPosition ==
    result.op \in {"search", "retrieve", "memory_retrieve"} =>
        /\ \A i \in 1..Len(result.hits) - 1 :
              result.hits[i].score >= result.hits[i + 1].score
        /\ \A i \in 1..Len(result.hits) : result.hits[i].rank = i


----------------------------------------------------------------------------
(* The hits of the embedding path against the stored vectors               *)

\* the rows of the store whose index is the one in the id of the hit h and
\* whose vector is the embedding of the text of h
RowsOfHit(store, h) ==
    {i \in 1..VecRows(store) :
        /\ h.id = EPH_ID \o IntStr(i - 1)
        /\ store.vecs[1][i] = Embed(h.text)}

\* C26 (embedding path): after any adds to a session, trims included, a
\* retrieval by vectors returns the min(k, n) best of the n stored vectors in
\* descending order of score, and each hit has the score of its vector and
\* the text and path of the item that vector was made from
C26_HitOfItsVector ==
    (result.op = "retrieve" /\ result.via = "vectors") =>
        LET store == EPHEMERAL_SESSIONS[result.sid]
            qv    == Embed(result.query)
            hits  == result.hits
        IN  /\ Len(hits) = Min2(result.top_k, VecRows(store))
            /\ \A r \in 1..Len(hits) - 1 : hits[r].score >= hits[r + 1].score
            /\ \A r \in 1..Len(hits) :
                  /\ \E i \in RowsOfHit(store, hits[r]) :
                        hits[r].score = Dot(store.vecs[1][i], qv)
                  /\ <<result.sid, [text |-> hits[r].text, path |-> hits[r].path]>> \in added
            /\ \A i \in 1..VecRows(store) :
                  (\A r \in 1..Len(hits) : hits[r].id # EPH_ID \o IntStr(i - 1)) =>
                      \A r \in 1..Len(hits) : Dot(store.vecs[1][i], qv) <= hits[r].score


----------------------------------------------------------------------------
(* The sessions an add removes                                             *)

\* C27 (eviction of the older half): an add that finds n live sessions
\* removes, when n >= MAX_EPHEMERAL_SESSIONS, exactly the n \div 2 sessions
\* with the smallest last_added_at, each with all its items, and when
\* n < MAX_EPHEMERAL_SESSIONS none.  A session is removed when it is gone
\* from the store or its earlier items are
C27_OlderHalfEvicted ==
    [][added' # added =>
          LET n       == Cardinality(DOMAIN EPHEMERAL_SESSIONS)
              removed == {s \in DOMAIN EPHEMERAL_SESSIONS :
                            \/ s \notin DOMAIN EPHEMERAL_SESSIONS'
                            \/ SubSeq(EPHEMERAL_SESSIONS'[s].items, 1,
                                      Len(EPHEMERAL_SESSIONS[s].items))
                                  # EPHEMERAL_SESSIONS[s].items}
          IN  IF n >= MAX_EPHEMERAL_SESSIONS
              THEN /\ Cardinality(removed) = n \div 2
                   /\ \A r \in removed : \A s \in DOMAIN EPHEMERAL_SESSIONS \ removed :
                         EPHEMERAL_SESSIONS[r].last_added_at
                            < EPHEMERAL_SESSIONS[s].last_added_at
              ELSE removed = {}]_vars


----------------------------------------------------------------------------
(* Specification of the file context: uploads of several chunks to a       *)
(* session and the context builders over them                              *)

FileUploads ==
    { <<File(N_a_md, <<T_cat, T_cat_nap, T_hike_trail, T_Hike_to>>)>>,
      <<File(N_b_md, <<T_hike_trail>>)>> }

FileMessages == {Q_hike, Q_cat_trail}

InitFile ==
    /\ rrf_in = << >> /\ rrf_in0 = << >> /\ rrf_calls = << >>
    /\ EPHEMERAL_SESSIONS = << >>
    /\ clock = 0
    /\ rag_instance = 0
    /\ index_build = 0
    /\ mem_db = << >>
    /\ mem_item = << >>
    /\ prompt_lru = << >>
    /\ result = [op |-> "init"]
    /\ added = {}
    /\ bm25_build = 0
    /\ add_task = << >>
    /\ reindex_pc = "idle"

NextFile ==
    \/ index_build = 0 /\ ingest_main(1)
    \/ \E files \in FileUploads, ok \in BOOLEAN :
          clock < MaxClock /\ upload_files("A", files, ok)
    \/ \E m \in FileMessages, sid \in CtxSids, allowed \in CtxAllowed :
          build_context_bundle("u1", m, sid, TRUE, allowed, "none")
    \/ \E m \in FileMessages, sid \in CtxSids, allowed \in CtxAllowed :
          build_context_async("u1", m, sid, TRUE, allowed, "none")

SpecFile == InitFile /\ [][NextFile]_vars

\* the block of file_context for an item
FileBlock(item) ==
    <<"C", "o", "n", "t", "e", "n", "t", " ", "f", "r", "o", "m", " ">> \o item.path
    \o <<":", NL>> \o item.text

\* C28 (file context): when the retriever is loaded, file_context of a
\* context build holds a block for an item of the session if and only if the
\* text of the item shares a token of more than 3 characters with the
\* message, for every item of the session
C28_FileContextAllItems ==
    (/\ result.op \in {"build_context_bundle", "build_context_async"}
     /\ rag_instance # 0
     /\ result.sid \in DOMAIN EPHEMERAL_SESSIONS) =>
        \A i \in 1..Len(EPHEMERAL_SESSIONS[result.sid].items) :
            IsSubstr(FileBlock(EPHEMERAL_SESSIONS[result.sid].items[i]),
                     result.bundle.file_context)
            <=> SharesLongToken(EPHEMERAL_SESSIONS[result.sid].items[i].text, result.message)


----------------------------------------------------------------------------
(* The in-process prompt cache and POST /chat/stream                       *)

\* app.py 119
_PROMPT_LRU_CAP == 32

\* the keys of the OrderedDict
LruKeys(lru) == {lru[i].key : i \in DOMAIN lru}

\* the OrderedDict without a key, the order of the others kept
LruWithout(lru, key) == SelectSeq(lru, LAMBDA e : e.key # key)

\* the entry of a key the OrderedDict holds
LruEntry(lru, key) == lru[CHOOSE i \in DOMAIN lru : lru[i].key = key]

\* app.py 121-128: what _prompt_lru_get(key) returns; a reply is an optional,
\* None standing for both None and the empty string, the two falsy results
PromptLruGet(lru, key) ==
    IF key \in LruKeys(lru) THEN LruEntry(lru, key).value ELSE None

\* app.py 121-128: _prompt_lru after _prompt_lru_get(key), the key moved to the end
PromptLruAfterGet(lru, key) ==
    IF key \in LruKeys(lru) THEN Append(LruWithout(lru, key), LruEntry(lru, key)) ELSE lru

\* app.py 130-138: _prompt_lru after _prompt_lru_set(key, value)
PromptLruSet(lru, key, value) ==
    LET moved == Append(LruWithout(lru, key), [key |-> key, value |-> value])
    IN  IF Len(moved) > _PROMPT_LRU_CAP
        THEN SubSeq(moved, Len(moved) - _PROMPT_LRU_CAP + 1, Len(moved))
        ELSE moved

\* app.py 1503-1515, 1541: the text the model streams for the messages of a
\* request; the messages are built from the context, the message and the chat
\* history of (user_id, session_id), and the text is kept as what determined it
LlmReply(user_id, session_id, message, context) ==
    [user_id |-> user_id, sid |-> session_id, message |-> message, context |-> context]

\* app.py 1431-1600: a request POST /chat/stream of one worker process.
\* overloaded: what memory_manager says after the collection; llm_ok: whether
\* the completion streams its text or raises before the first chunk.  The
\* Redis response cache (1518-1528) is written at 1572 for every message
\* _prompt_lru is written for at 1574 and is read after _prompt_lru, so with
\* fewer than _PROMPT_LRU_CAP messages it never answers first.
chat_stream(user_id, message, session_id, overloaded, embed_ok, llm_ok) ==
    LET key    == Strip(message)
        fast   == PromptLruGet(prompt_lru, key)
        loads  == RetrieverLoads(rag_instance, index_build)
        bundle == BuildContextBundle(
                     EPHEMERAL_SESSIONS, InstanceAfterGet(rag_instance, index_build),
                     Bm25After(bm25_build, index_build), mem_db, mem_item,
                     user_id, message, session_id, loads, embed_ok, None, "none")
        full   == IF llm_ok
                  THEN Some(LlmReply(user_id, session_id, message, bundle.context))
                  ELSE None
        req    == [op |-> "chat_stream", user_id |-> user_id, message |-> message,
                   sid |-> session_id]
    IN  IF key = << >>
        THEN /\ result' = req @@ [status |-> 400, served |-> "none", reply |-> None,
                                  context |-> << >>]
             /\ UNCHANGED <<EPHEMERAL_SESSIONS, clock, rag_instance, index_build, mem_db,
                            mem_item, added, bm25_build, prompt_lru>>
             /\ UNCHANGED <<rrfVars, taskVars>>
        ELSE IF overloaded
        THEN /\ result' = req @@ [status |-> 503, served |-> "none", reply |-> None,
                                  context |-> << >>]
             /\ UNCHANGED <<EPHEMERAL_SESSIONS, clock, rag_instance, index_build, mem_db,
                            mem_item, added, bm25_build, prompt_lru>>
             /\ UNCHANGED <<rrfVars, taskVars>>
        ELSE IF fast # None
        THEN /\ result' = req @@ [status |-> 200, served |-> "prompt_lru", reply |-> fast,
                                  context |-> bundle.context]
             /\ prompt_lru' = PromptLruAfterGet(prompt_lru, key)
             /\ UNCHANGED <<EPHEMERAL_SESSIONS, clock, rag_instance, index_build, mem_db,
                            mem_item, added, bm25_build>>
             /\ UNCHANGED <<rrfVars, taskVars>>
        ELSE /\ result' = req @@ [status |-> 200, served |-> "llm", reply |-> full,
                                  context |-> bundle.context]
             /\ prompt_lru' = PromptLruSet(PromptLruAfterGet(prompt_lru, key), key, full)
             /\ rag_instance' = InstanceAfterGet(rag_instance, index_build)
             /\ bm25_build' = IF loads /\ embed_ok THEN Bm25After(bm25_build, index_build)
                               ELSE bm25_build
             /\ UNCHANGED <<EPHEMERAL_SESSIONS, clock, index_build, mem_db, mem_item, added>>
             /\ UNCHANGED <<rrfVars, taskVars>>

----------------------------------------------------------------------------
(* Specification of the chat stream: an index, uploads to session A and    *)
(* requests of two users in two sessions                                   *)

ChatUsers == {"u1", "u2"}

ChatMessages == {Q_hike, <<" ">>}

MaxChatUploads == 1

ChatUploads == { <<File(N_a_md, <<T_hike_trail>>)>> }

InitChat ==
    /\ rrf_in = << >> /\ rrf_in0 = << >> /\ rrf_calls = << >>
    /\ EPHEMERAL_SESSIONS = << >>
    /\ clock = 0
    /\ rag_instance = 0
    /\ index_build = 0
    /\ mem_db = << >>
    /\ mem_item = << >>
    /\ prompt_lru = << >>
    /\ result = [op |-> "init"]
    /\ added = {}
    /\ bm25_build = 0
    /\ add_task = << >>
    /\ reindex_pc = "idle"

NextChat ==
    \/ index_build = 0 /\ ingest_main(1)
    \/ \E files \in ChatUploads : clock < MaxChatUploads /\ upload_files("A", files, TRUE)
    \/ \E u \in ChatUsers, m \in ChatMessages, sid \in CtxSids,
          overloaded \in BOOLEAN, llm_ok \in BOOLEAN :
          chat_stream(u, m, sid, overloaded, TRUE, llm_ok)

SpecChat == InitChat /\ [][NextChat]_vars

\* C29 (chat stream): the reply a request of /chat/stream is served was
\* generated for the user id, the session id, the message and the retrieval
\* context of that request, also when it is served from the prompt cache
C29_ReplyOfOwnSession ==
    (/\ result.op = "chat_stream"
     /\ result.status = 200
     /\ result.reply # None) =>
        result.reply[1] = LlmReply(result.user_id, result.sid, result.message, result.context)


----------------------------------------------------------------------------
(* The allowed ids of RAG.retrieve (rag.py 164-179)                        *)

\* rag.py 124
DEFAULT_KINDS == {<<"s", "e", "m", "a", "n", "t", "i", "c">>, Q_note}

\* rag.py 125
_recency_days == 180

\* rag.py 167-176: the ids of the rows of the user whose kind is a default
\* kind or that are pinned, and that are pinned or were updated since the cutoff
AllowedIdsOf(items, user_id, now) ==
    {items[i].id : i \in {j \in 1..Len(items) :
        /\ items[j].user_id = user_id
        /\ items[j].kind \in DEFAULT_KINDS \/ items[j].pinned
        /\ items[j].pinned \/ items[j].updated_at >= now - _recency_days * 86400}}

\* rag.py 164-179: allowed_ids; None without a user_id and when the read raises
AllowedIdsRead(items, user_id, now, mem_ok) ==
    IF user_id # "" /\ mem_ok THEN Some(AllowedIdsOf(items, user_id, now)) ELSE None

\* a call RetrieverManager.get_retriever_sync().retrieve(query, user_id) that
\* reads allowed_ids from mem_item; mem_ok: the read of the memory database returns
retrieve_for_user(query, user_id, mem_ok, reranker) ==
    rag_retrieve(query, AllowedIdsRead(mem_item, user_id, clock, mem_ok), reranker)

----------------------------------------------------------------------------
(* Specification of the allowed ids: rows of mem_item, some under the id   *)
(* of a chunk, and retrievals of users over an index                       *)

MaxAllowedRows == 2

AllowedUsers == {"u1", "u2"}

AllowedItemIds == {<<"d", "1">>, <<"m", "1">>}

AllowedKinds == {Q_note, <<"t", "a", "s", "k">>}

AllowedQueries == {Q_hike, Q_four}

InitAllowed ==
    /\ rrf_in = << >> /\ rrf_in0 = << >> /\ rrf_calls = << >>
    /\ EPHEMERAL_SESSIONS = << >>
    /\ clock = 0
    /\ rag_instance = 0
    /\ index_build = 0
    /\ mem_db = << >>
    /\ mem_item = << >>
    /\ prompt_lru = << >>
    /\ result = [op |-> "init"]
    /\ added = {}
    /\ bm25_build = 0
    /\ add_task = << >>
    /\ reindex_pc = "idle"

NextAllowed ==
    \/ index_build = 0 /\ ingest_main(3)
    \/ \E kind \in AllowedKinds, pinned \in BOOLEAN, id \in AllowedItemIds :
          /\ Len(mem_item) < MaxAllowedRows
          /\ create_mem_item("u1", kind, None, Some(T_cat), pinned, id)
    \/ \E q \in AllowedQueries, u \in AllowedUsers, mem_ok \in BOOLEAN,
          reranker \in {"none", "long"} :
          retrieve_for_user(q, u, mem_ok, reranker)

SpecAllowed == InitAllowed /\ [][NextAllowed]_vars

\* the ids of a list of hit dicts all belong to a set
IdsWithin(hits, ids) ==
    \A i \in 1..Len(hits) : Truthy(hits[i].id) /\ hits[i].id[1] \in ids

\* C30 (allowed ids): when RAG.retrieve read the set of allowed ids, empty
\* or not, every hit it returns has an id of that set, in the fused list
\* before the rerank and in the list after it
C30_HitsAllowed ==
    (result.op = "rag_retrieve" /\ result.allowed # None) =>
        /\ IdsWithin(result.fused, result.allowed[1])
        /\ IdsWithin(result.hits, result.allowed[1])

\* a retrieval that read a set holding one chunk id, dropped dense and BM25
\* candidates, and returned hits that the cross-encoder scored
C30_Witness ==
    /\ result.op = "rag_retrieve"
    /\ result.allowed # None
    /\ result.hits # << >>
    /\ \E i \in 1..Len(result.dense) : result.dense[i].id[1] \notin result.allowed[1]
    /\ \E i \in 1..Len(result.lexical) : result.lexical[i].id[1] \notin result.allowed[1]
    /\ \A i \in 1..Len(result.hits) : result.hits[i].ce_score # None

====
